---- MODULE Spec2Model ----
(***************************************************************************)
(* Model of the two self-healing Lambda functions of the repository:       *)
(*   src/modules/self-healing-ec2/lambda/ec2_healing.py   (kind "compute") *)
(*   src/modules/self-healing-rds/lambda/rds_healing.py   (kind "database")*)
(*                                                                         *)
(* Python strings whose content the code inspects (tag values, instance    *)
(* classes) are sequences of one-character strings, so that int(), str(),  *)
(* split('.'), endswith() and lower() are computed, not assumed.           *)
(***************************************************************************)
EXTENDS Integers, Sequences, FiniteSets, TLC

(***************************************************************************)
(* Bounds of the model.                                                    *)
(***************************************************************************)
\* how many attributes of the resource, its tags and the deployment an
\* operator may have changed away from the resource as deployed
MaxDeviations == 2
\* largest allocated storage (GB) of the storage-alarm specification
MaxStorage == 60

(***************************************************************************)
(* Program constants.                                                      *)
(***************************************************************************)
\* MAX_HEALING_ATTEMPTS = int(os.environ.get('MAX_HEALING_ATTEMPTS', 3))
MAX_HEALING_ATTEMPTS == 3
\* RETRY_COUNT = 3
RETRY_COUNT == 3
\* RETRY_DELAY = 2  # seconds
RETRY_DELAY == 2
\* TRANSITIONAL_STATES = ['pending', 'stopping', 'shutting-down']
TRANSITIONAL_STATES == <<"pending", "stopping", "shutting-down">>

(***************************************************************************)
(* Strings.                                                                *)
(***************************************************************************)
Range(s) == {s[i] : i \in 1..Len(s)}

DigitChars == <<"0", "1", "2", "3", "4", "5", "6", "7", "8", "9">>

IsDigit(c) == \E d \in 1..10 : DigitChars[d] = c

DigitVal(c) == (CHOOSE d \in 1..10 : DigitChars[d] = c) - 1

\* str(n) for an integer n
RECURSIVE str(_)
str(n) ==
    IF n < 0 THEN <<"-">> \o str(0 - n)
    ELSE IF n < 10 THEN <<DigitChars[n + 1]>>
    ELSE str(n \div 10) \o <<DigitChars[(n % 10) + 1]>>

RECURSIVE DigitsVal(_)
DigitsVal(s) ==
    IF Len(s) = 0 THEN 0
    ELSE 10 * DigitsVal(SubSeq(s, 1, Len(s) - 1)) + DigitVal(s[Len(s)])

AllDigits(s) == Len(s) > 0 /\ \A i \in 1..Len(s) : IsDigit(s[i])

\* int(s): [ok |-> FALSE] stands for the ValueError int() raises.  The
\* alphabet of the model is digits, '-' and letters.
int(s) ==
    IF AllDigits(s) THEN [ok |-> TRUE, val |-> DigitsVal(s)]
    ELSE IF Len(s) > 1 /\ s[1] = "-" /\ AllDigits(Tail(s))
         THEN [ok |-> TRUE, val |-> 0 - DigitsVal(Tail(s))]
    ELSE [ok |-> FALSE, val |-> 0]

UpperChars ==
    <<"A", "B", "C", "D", "E", "F", "G", "H", "I", "J", "K", "L", "M">>
    \o <<"N", "O", "P", "Q", "R", "S", "T", "U", "V", "W", "X", "Y", "Z">>
LowerChars ==
    <<"a", "b", "c", "d", "e", "f", "g", "h", "i", "j", "k", "l", "m">>
    \o <<"n", "o", "p", "q", "r", "s", "t", "u", "v", "w", "x", "y", "z">>

\* s.lower()
lower(s) ==
    [i \in 1..Len(s) |->
        IF \E k \in 1..Len(UpperChars) : UpperChars[k] = s[i]
        THEN LowerChars[CHOOSE k \in 1..Len(UpperChars) : UpperChars[k] = s[i]]
        ELSE s[i]]

\* s.split('.')
RECURSIVE split(_)
split(s) ==
    IF \A i \in 1..Len(s) : s[i] # "."
    THEN <<s>>
    ELSE LET k == CHOOSE i \in 1..Len(s) :
                      s[i] = "." /\ \A j \in 1..(i - 1) : s[j] # "."
         IN <<SubSeq(s, 1, k - 1)>> \o split(SubSeq(s, k + 1, Len(s)))

\* s.endswith(suffix)
endswith(s, suffix) ==
    /\ Len(s) >= Len(suffix)
    /\ SubSeq(s, Len(s) - Len(suffix) + 1, Len(s)) = suffix

\* s.replace(suffix, '') for an s that ends with suffix and holds it once
StripSuffix(s, suffix) == SubSeq(s, 1, Len(s) - Len(suffix))

xlarge == <<"x", "l", "a", "r", "g", "e">>


(* Instance types and classes the model draws from. *)
\* 't3.micro'
T3Micro ==
    <<"t", "3", ".", "m", "i", "c", "r", "o">>
\* 't3.large'
T3Large ==
    <<"t", "3", ".", "l", "a", "r", "g", "e">>
\* 'm5.large'
M5Large ==
    <<"m", "5", ".", "l", "a", "r", "g", "e">>
\* 'r5.large'
R5Large ==
    <<"r", "5", ".", "l", "a", "r", "g", "e">>
\* 'x1.large'
X1Large ==
    <<"x", "1", ".", "l", "a", "r", "g", "e">>
\* 'db.t3.micro'
DbT3Micro ==
    <<"d", "b", ".", "t", "3", ".", "m", "i", "c", "r", "o">>
\* 'db.t3.large'
DbT3Large ==
    <<"d", "b", ".", "t", "3", ".", "l", "a", "r", "g", "e">>
\* 'db.m5.small'
DbM5Small ==
    <<"d", "b", ".", "m", "5", ".", "s", "m", "a", "l", "l">>
\* 'db.m5.large'
DbM5Large ==
    <<"d", "b", ".", "m", "5", ".", "l", "a", "r", "g", "e">>
\* 'db.m5.xlarge'
DbM5Xlarge ==
    <<"d", "b", ".", "m", "5", ".", "x", "l", "a", "r", "g", "e">>
\* 'db.r5.large'
DbR5Large ==
    <<"d", "b", ".", "r", "5", ".", "l", "a", "r", "g", "e">>
\* 'db.x1.large'
DbX1Large ==
    <<"d", "b", ".", "x", "1", ".", "l", "a", "r", "g", "e">>
\* 'db.r5.2xlarge'
DbR52xlarge ==
    <<"d", "b", ".", "r", "5", ".", "2", "x", "l", "a", "r", "g", "e">>
\* 'db.r5.4xlarge'
DbR54xlarge ==
    <<"d", "b", ".", "r", "5", ".", "4", "x", "l", "a", "r", "g", "e">>
\* 'db.r5.12xlarge'
DbR512xlarge ==
    <<"d", "b", ".", "r", "5", ".", "1", "2", "x", "l", "a", "r", "g", "e">>
\* 'db.r5.metal'
DbR5Metal ==
    <<"d", "b", ".", "r", "5", ".", "m", "e", "t", "a", "l">>

(* The substrings handle_performance_issue looks for in the alarm name. *)
\* 'cpu-utilization'
KwCpu ==
    <<"c", "p", "u", "-", "u", "t", "i", "l", "i", "z", "a", "t", "i", "o", "n">>
\* 'free-storage-space'
KwStorage ==
    <<"f", "r", "e", "e", "-", "s", "t", "o", "r", "a", "g", "e", "-", "s", "p", "a", "c", "e">>
\* 'database-connections'
KwConnections ==
    <<"d", "a", "t", "a", "b", "a", "s", "e", "-", "c", "o", "n", "n", "e", "c", "t", "i", "o", "n", "s">>
\* 'memory'
KwMemory ==
    <<"m", "e", "m", "o", "r", "y">>
\* 'replica-lag'
KwReplicaLag ==
    <<"r", "e", "p", "l", "i", "c", "a", "-", "l", "a", "g">>
\* 'io-utilization'
KwIo ==
    <<"i", "o", "-", "u", "t", "i", "l", "i", "z", "a", "t", "i", "o", "n">>

(* Alarm names the model draws from. *)
\* 'db-CPU-Utilization'
AlarmCpu ==
    <<"d", "b", "-", "C", "P", "U", "-", "U", "t", "i", "l", "i", "z", "a", "t", "i", "o", "n">>
\* 'free-storage-space'
AlarmStorage ==
    <<"f", "r", "e", "e", "-", "s", "t", "o", "r", "a", "g", "e", "-", "s", "p", "a", "c", "e">>
\* 'database-connections'
AlarmConnections ==
    <<"d", "a", "t", "a", "b", "a", "s", "e", "-", "c", "o", "n", "n", "e", "c", "t", "i", "o", "n", "s">>
\* 'low-memory'
AlarmMemory ==
    <<"l", "o", "w", "-", "m", "e", "m", "o", "r", "y">>
\* 'replica-lag'
AlarmReplicaLag ==
    <<"r", "e", "p", "l", "i", "c", "a", "-", "l", "a", "g">>
\* 'io-utilization'
AlarmIo ==
    <<"i", "o", "-", "u", "t", "i", "l", "i", "z", "a", "t", "i", "o", "n">>
\* 'disk-queue'
AlarmOther ==
    <<"d", "i", "s", "k", "-", "q", "u", "e", "u", "e">>
\* 'free-storage-space-cpu-utilization'
AlarmStorageCpu ==
    <<"f", "r", "e", "e", "-", "s", "t", "o", "r", "a", "g", "e", "-", "s", "p", "a", "c", "e", "-", "c", "p", "u", "-", "u", "t", "i", "l", "i", "z", "a", "t", "i", "o", "n">>

(* The sentinel of the MaintenanceWindow tag. *)
\* 'active'
active ==
    <<"a", "c", "t", "i", "v", "e">>

AlarmNames ==
    {AlarmCpu, AlarmStorage, AlarmConnections, AlarmMemory, AlarmReplicaLag,
     AlarmIo, AlarmOther}

ComputeTypes == {T3Micro, T3Large}
DatabaseClasses == {DbM5Small, DbT3Large, DbM5Large, DbM5Xlarge}

(***************************************************************************)
(* is_instance_class_larger (rds_healing.py 707-749).                      *)
(***************************************************************************)
\* family_order = {'t': 1, 'm': 2, 'r': 3, 'x': 4}
family_order ==
    (<<"t">> :> 1) @@ (<<"m">> :> 2) @@ (<<"r">> :> 3) @@ (<<"x">> :> 4)

\* size_order = {'nano': 1, ..., '16xlarge': 10}
size_order ==
    (<<"n", "a", "n", "o">> :> 1) @@
    (<<"m", "i", "c", "r", "o">> :> 2) @@
    (<<"s", "m", "a", "l", "l">> :> 3) @@
    (<<"m", "e", "d", "i", "u", "m">> :> 4) @@
    (<<"l", "a", "r", "g", "e">> :> 5) @@
    (xlarge :> 6) @@
    ((<<"2">> \o xlarge) :> 7) @@
    ((<<"4">> \o xlarge) :> 8) @@
    ((<<"8">> \o xlarge) :> 9) @@
    ((<<"1", "6">> \o xlarge) :> 10)

\* int(size.replace('xlarge', '')) if size != 'xlarge' else 1
XlargeNum(size) ==
    IF size = xlarge THEN [ok |-> TRUE, val |-> 1]
    ELSE int(StripSuffix(size, xlarge))

\* The comparison of the sizes, lines 734-749.
CompareSizes(size1, size2) ==
    IF size1 \in DOMAIN size_order /\ size2 \in DOMAIN size_order
    THEN size_order[size1] > size_order[size2]
    ELSE IF endswith(size1, xlarge) /\ endswith(size2, xlarge)
              /\ XlargeNum(size1).ok /\ XlargeNum(size2).ok
         THEN XlargeNum(size1).val > XlargeNum(size2).val
    ELSE FALSE

\* family1 in family_order and family2 in family_order, lines 728-732: the
\* keys are the bare family letters, the operands the whole second part of
\* the class ('t3', 'm5').
FamiliesKnown(family1, family2) ==
    family1 \in DOMAIN family_order /\ family2 \in DOMAIN family_order

is_instance_class_larger(class1, class2) ==
    LET parts1 == split(class1)
        parts2 == split(class2)
    IN  IF Len(parts1) < 3 \/ Len(parts2) < 3 THEN FALSE
        ELSE LET family1 == parts1[2]
                 size1 == parts1[3]
                 family2 == parts2[2]
                 size2 == parts2[3]
             IN  IF FamiliesKnown(family1, family2)
                    /\ family_order[family1] > family_order[family2]
                 THEN TRUE
                 ELSE IF FamiliesKnown(family1, family2)
                         /\ family_order[family1] < family_order[family2]
                 THEN FALSE
                 ELSE CompareSizes(size1, size2)

(***************************************************************************)
(* State.                                                                  *)
(***************************************************************************)
VARIABLES
    cfg,     \* the environment variables of the function (lines 19-26 / 24-30)
    res,     \* the managed resource as the control plane holds it
    tags,    \* the tags of the resource: tag key -> value
    run,     \* the invocations of lambda_handler in flight, by slot
    prev,    \* what the last invocation did, while nothing happened since
    probe    \* the operands and result of the pure-function specifications

vars == <<cfg, res, tags, run, prev, probe>>

\* Slots of concurrent Lambda invocations for the one resource.
Procs == {"r1", "r2"}

ComputeStates ==
    {"running", "stopped", "pending", "stopping", "shutting-down", "terminated"}
DatabaseStates == {"available", "modifying", "rebooting", "stopped"}

GroupsA == {"sg-1", "sg-2"}
GroupsB == {"sg-1", "sg-9"}

\* Values an operator may give the HealingAttempts tag by hand.
ManualAttempts == {<<"3">>, <<"x">>}
\* Values an operator may give the MaintenanceWindow tag.
MaintenanceValues == {<<"A", "c", "t", "i", "v", "e">>, <<"o", "f", "f">>}

\* The timestamp datetime.now().isoformat() writes; time is not modelled.
Timestamp == <<"n", "o", "w">>

NoTags == [k \in {} |-> <<>>]

\* A record of the log of one invocation: a control-plane call, a sleep or
\* a call of send_notification, with its argument and whether it succeeded.
Ev(op, ok, arg) == [op |-> op, ok |-> ok, arg |-> arg]

Result(code, body) == [statusCode |-> code, body |-> body]
NoResult == Result(0, "")

\* The operations that change the resource or its tags.
LifecycleOps ==
    {"reboot_instances", "stop_instances", "start_instances",
     "modify_instance_type", "modify_groups",
     "reboot_db_instance", "modify_db_instance_class",
     "modify_db_instance_storage"}
TagWriteOps == {"create_tags", "add_tags_to_resource"}
MutatingOps == LifecycleOps \cup TagWriteOps

\* What a successful control-plane call does to the resource.
Apply(r, op, arg) ==
    CASE op = "stop_instances" -> [r EXCEPT !.State = "stopping"]
      [] op = "wait_instance_stopped" -> [r EXCEPT !.State = "stopped"]
      [] op = "start_instances" -> [r EXCEPT !.State = "pending"]
      [] op = "modify_instance_type" -> [r EXCEPT !.Type = arg]
      [] op = "modify_groups" -> [r EXCEPT !.Groups = arg]
      [] op = "reboot_db_instance" -> [r EXCEPT !.State = "rebooting"]
      [] op = "modify_db_instance_class" ->
            [r EXCEPT !.Type = arg, !.State = "modifying"]
      [] op = "modify_db_instance_storage" ->
            [r EXCEPT !.Storage = arg, !.State = "modifying"]
      [] OTHER -> r

(***************************************************************************)
(* The trigger payloads.                                                   *)
(***************************************************************************)
AlarmMarker == "CloudWatch Alarm State Change"

\* hasDetailType: 'detail-type' in event; hasAlarmName: 'detail' in event
\* and 'alarmName' in event['detail'].
Event(hasDetailType, detailType, hasAlarmName, alarmName) ==
    [hasDetailType |-> hasDetailType, detailType |-> detailType,
     hasAlarmName |-> hasAlarmName, alarmName |-> alarmName]

NoEvent == Event(FALSE, "", FALSE, <<>>)


Events(kind) ==
    {Event(TRUE, "Scheduled Event", FALSE, <<>>),
     Event(FALSE, "", FALSE, <<>>),
     Event(TRUE, AlarmMarker, FALSE, <<>>)}
    \cup (IF kind = "database"
          THEN {Event(TRUE, AlarmMarker, TRUE, n) : n \in AlarmNames}
          ELSE {Event(TRUE, AlarmMarker, TRUE, AlarmCpu)})

\* determine_event_type of the compute function
determine_event_type_ec2(event) ==
    IF event.hasDetailType /\ event.detailType = AlarmMarker
    THEN "status_check_failure"
    ELSE "config_drift"

\* determine_event_type of the database function
determine_event_type_rds(event) ==
    IF event.hasDetailType /\ event.detailType = AlarmMarker
    THEN "performance_issue"
    ELSE "config_drift"

(***************************************************************************)
(* get_instance_details_with_retry.  responses[i] is what the i-th         *)
(* describe call does: "raise", "empty" (no such resource) or "ok".        *)
(***************************************************************************)
RECURSIVE RetryLoop(_, _, _, _)
RetryLoop(retries, max_retries, responses, log) ==
    IF retries < max_retries
    THEN IF responses[retries + 1] = "raise"
         THEN RetryLoop(retries + 1, max_retries, responses,
                        log \o <<Ev("describe", FALSE, <<>>)>>
                            \o (IF retries + 1 < max_retries
                                THEN <<Ev("sleep", TRUE, <<RETRY_DELAY>>)>>
                                ELSE <<>>))
         ELSE [found |-> responses[retries + 1] = "ok",
               log |-> log \o <<Ev("describe", TRUE, <<>>)>>]
    ELSE [found |-> FALSE, log |-> log]

get_instance_details_with_retry(responses) ==
    RetryLoop(0, RETRY_COUNT, responses, <<>>)

(***************************************************************************)
(* The attempt budget (get_healing_attempts, lambda_handler).              *)
(***************************************************************************)
HasTag(t, key) == key \in DOMAIN t

\* get_healing_attempts of the compute function: the tags of the snapshot
get_healing_attempts_ec2(instance_details) ==
    IF DOMAIN instance_details.tags = {} THEN 0
    ELSE IF HasTag(instance_details.tags, "HealingAttempts")
         THEN IF int(instance_details.tags["HealingAttempts"]).ok
              THEN int(instance_details.tags["HealingAttempts"]).val
              ELSE 0
    ELSE 0

\* get_healing_attempts_rds failing closed: a tag read that raises counts
\* as an exhausted budget.
get_healing_attempts_rds_fail_closed(tag_list, readOk) ==
    IF ~readOk THEN MAX_HEALING_ATTEMPTS
    ELSE IF HasTag(tag_list, "HealingAttempts")
         THEN IF int(tag_list["HealingAttempts"]).ok
              THEN int(tag_list["HealingAttempts"]).val
              ELSE 0
    ELSE 0

\* get_healing_attempts of the database function: tag_list is what
\* list_tags_for_resource returns now, readOk is FALSE when the call raises
get_healing_attempts_rds(tag_list, readOk) ==
    IF ~readOk THEN 0
    ELSE IF HasTag(tag_list, "HealingAttempts")
         THEN IF int(tag_list["HealingAttempts"]).ok
              THEN int(tag_list["HealingAttempts"]).val
              ELSE 0
    ELSE 0

\* if healing_attempts >= MAX_HEALING_ATTEMPTS
BudgetExhausted(healing_attempts) == healing_attempts >= MAX_HEALING_ATTEMPTS

\* IncrementTags counting two attempts for one call.
IncrementTagsByTwo(kind, current_attempts) ==
    IF kind = "compute"
    THEN ("HealingAttempts" :> str(current_attempts + 2))
         @@ ("LastHealed" :> Timestamp) @@ ("LastHealingAction" :> Timestamp)
    ELSE ("HealingAttempts" :> str(current_attempts + 2))
         @@ ("LastHealed" :> Timestamp)

\* The tags increment_healing_attempts writes.
IncrementTags(kind, current_attempts) ==
    IF kind = "compute"
    THEN ("HealingAttempts" :> str(current_attempts + 1))
         @@ ("LastHealed" :> Timestamp) @@ ("LastHealingAction" :> Timestamp)
    ELSE ("HealingAttempts" :> str(current_attempts + 1))
         @@ ("LastHealed" :> Timestamp)

\* The tag set after a successful tag write: written keys replace old ones.
WriteTags(t, written) == written @@ t

(***************************************************************************)
(* Guards.                                                                 *)
(***************************************************************************)
\* IsTransitional over a list that lacks 'shutting-down'.
IsTransitionalTwo(instance_state) == instance_state \in {"pending", "stopping"}

\* if instance_state in TRANSITIONAL_STATES
IsTransitional(instance_state) == instance_state \in Range(TRANSITIONAL_STATES)

\* tag['Key'] == 'MaintenanceWindow' and tag['Value'].lower() == 'active'
in_maintenance(instance_details) ==
    /\ HasTag(instance_details.tags, "MaintenanceWindow")
    /\ lower(instance_details.tags["MaintenanceWindow"]) = active

(***************************************************************************)
(* Drift detection.                                                        *)
(***************************************************************************)
\* ORIGINAL_SECURITY_GROUPS and ORIGINAL_SECURITY_GROUPS[0]
GroupsConfigured == Len(cfg.groups) > 0 /\ cfg.groups[1] # ""

\* GroupsDrifted without the test that ORIGINAL_SECURITY_GROUPS is set: the
\* comparison alone, as a drift check that forgot the unset baseline.
GroupsDriftedUnconfigured(instance_details) ==
    instance_details.res.Groups # Range(cfg.groups)

GroupsDrifted(instance_details) ==
    GroupsConfigured /\ instance_details.res.Groups # Range(cfg.groups)

\* drift_details of the compute function, in the order it appends them
drift_details_ec2(instance_details) ==
    (IF instance_details.res.Image # cfg.image
     THEN <<"AMI drift detected">> ELSE <<>>)
    \o (IF instance_details.res.Type # cfg.itype
        THEN <<"Instance type drift detected">> ELSE <<>>)
    \o (IF GroupsDrifted(instance_details)
        THEN <<"Security groups drift detected">> ELSE <<>>)

\* drift_details_rds with the storage test written as "not above the
\* baseline" instead of "different from the baseline".
drift_details_rds_storage_le(instance_details) ==
    (IF instance_details.res.Type # cfg.itype
     THEN <<"Instance class drift detected">> ELSE <<>>)
    \o (IF instance_details.res.Storage <= cfg.storage
        THEN <<"Allocated storage drift detected">> ELSE <<>>)
    \o (IF instance_details.res.Image # cfg.image
        THEN <<"Engine version drift detected">> ELSE <<>>)

\* drift_details of the database function, in the order it appends them
drift_details_rds(instance_details) ==
    (IF instance_details.res.Type # cfg.itype
     THEN <<"Instance class drift detected">> ELSE <<>>)
    \o (IF instance_details.res.Storage # cfg.storage
        THEN <<"Allocated storage drift detected">> ELSE <<>>)
    \o (IF instance_details.res.Image # cfg.image
        THEN <<"Engine version drift detected">> ELSE <<>>)

drift_details(instance_details) ==
    IF cfg.kind = "compute" THEN drift_details_ec2(instance_details)
    ELSE drift_details_rds(instance_details)

(***************************************************************************)
(* try blocks.  A step is a control-plane call or a send_notification; F   *)
(* is the set of calls that raise in this invocation; a raising call ends  *)
(* the block.  send_notification never raises (it swallows the publish     *)
(* error); nOk is whether the publish succeeds.                            *)
(***************************************************************************)
St(op, arg, note) == [op |-> op, arg |-> arg, note |-> note]

Notify(message) == St("notify", message, "")

RECURSIVE TryBlock(_, _, _, _, _)
TryBlock(steps, i, F, nOk, acc) ==
    IF i > Len(steps) THEN acc
    ELSE IF steps[i].op = "notify"
    THEN TryBlock(steps, i + 1, F, nOk,
            [acc EXCEPT !.log = @ \o <<Ev("notify", nOk, steps[i].arg)>>])
    ELSE IF steps[i].op \in F
    THEN [acc EXCEPT !.log = @ \o <<Ev(steps[i].op, FALSE, steps[i].arg)>>,
                     !.failed = TRUE]
    ELSE TryBlock(steps, i + 1, F, nOk,
            [log |-> acc.log \o <<Ev(steps[i].op, TRUE, steps[i].arg)>>,
             res |-> Apply(acc.res, steps[i].op, steps[i].arg),
             notes |-> acc.notes \o (IF steps[i].note = "" THEN <<>>
                                     ELSE <<steps[i].note>>),
             failed |-> FALSE])

Block(steps, F, nOk, r) ==
    TryBlock(steps, 1, F, nOk,
             [log |-> <<>>, res |-> r, notes |-> <<>>, failed |-> FALSE])

\* What a handler hands back: the calls it made, the resource after them
\* and the value it returns.
Done(log, r, result) == [log |-> log, res |-> r, result |-> result]

NotifyEv(nOk, message) == <<Ev("notify", nOk, message)>>

(***************************************************************************)
(* The compute function: the handlers after increment_healing_attempts.    *)
(***************************************************************************)
\* apply_custom_healing_action
apply_custom_healing_action(action_type, r, F, nOk) ==
    IF action_type = "stop_start"
    THEN LET b == Block(<<St("stop_instances", <<>>, ""),
                          Notify(<<"Custom healing: Stopping instance">>),
                          St("wait_instance_stopped", <<>>, ""),
                          St("start_instances", <<>>, ""),
                          Notify(<<"Custom healing: Starting instance">>)>>,
                        F, nOk, r)
         IN  IF b.failed
             THEN Done(b.log, b.res,
                       Result(500, "Failed to apply custom healing action"))
             ELSE Done(b.log, b.res,
                       Result(200, "Custom healing action (stop-start) completed"))
    ELSE IF action_type = "restore_from_backup"
    THEN Done(NotifyEv(nOk, <<"Custom healing action not yet implemented">>),
              r, Result(501, "Custom healing action not implemented"))
    ELSE LET b == Block(<<St("reboot_instances", <<>>, ""),
                          Notify(<<"Custom healing: Rebooted instance">>)>>,
                        F, nOk, r)
         IN  IF b.failed
             THEN Done(b.log, b.res,
                       Result(500, "Failed to apply default healing action"))
             ELSE Done(b.log, b.res,
                       Result(200, "Default reboot healing action applied"))

\* RebootThenStop without the fallback: a failed reboot is the end.
RebootOnly(r, F, nOk) ==
    LET b == Block(<<St("reboot_instances", <<>>, ""),
                     Notify(<<"Rebooted instance">>),
                     St("sleep", <<5>>, "")>>, F, nOk, r)
    IN  IF ~b.failed
        THEN Done(b.log, b.res, Result(200, "Instance reboot initiated"))
        ELSE Done(b.log, b.res, Result(500, "Failed to heal instance"))

\* RebootThenStop with the start that the comment at line 210 announces.
RebootThenStopStart(r, F, nOk) ==
    LET b == Block(<<St("reboot_instances", <<>>, ""),
                     Notify(<<"Rebooted instance">>),
                     St("sleep", <<5>>, "")>>, F, nOk, r)
        c == Block(<<St("stop_instances", <<>>, ""),
                     Notify(<<"Stopping instance">>),
                     St("start_instances", <<>>, "")>>, F, nOk, b.res)
    IN  IF ~b.failed
        THEN Done(b.log, b.res, Result(200, "Instance reboot initiated"))
        ELSE IF ~c.failed
        THEN Done(b.log \o c.log, c.res, Result(200, "Instance stop initiated"))
        ELSE Done(b.log \o c.log, c.res, Result(500, "Failed to heal instance"))

\* The running branch of handle_status_check_failure, lines 194-227:
\* reboot, and stop when the reboot raises.
RebootThenStop(r, F, nOk) ==
    LET b == Block(<<St("reboot_instances", <<>>, ""),
                     Notify(<<"Rebooted instance">>),
                     St("sleep", <<5>>, "")>>, F, nOk, r)
        c == Block(<<St("stop_instances", <<>>, ""),
                     Notify(<<"Stopping instance">>)>>, F, nOk, b.res)
    IN  IF ~b.failed
        THEN Done(b.log, b.res, Result(200, "Instance reboot initiated"))
        ELSE IF ~c.failed
        THEN Done(b.log \o c.log, c.res, Result(200, "Instance stop initiated"))
        ELSE Done(b.log \o c.log, c.res, Result(500, "Failed to heal instance"))

\* handle_status_check_failure rebooting in every state but stopped.
StatusCheckFailureAnyState(instance_details, r, F, nOk) ==
    IF instance_details.res.State = "running"
    THEN IF cfg.custom # "default"
         THEN apply_custom_healing_action(cfg.custom, r, F, nOk)
         ELSE RebootThenStop(r, F, nOk)
    ELSE IF instance_details.res.State = "stopped"
    THEN LET b == Block(<<St("start_instances", <<>>, ""),
                          Notify(<<"Started instance">>)>>, F, nOk, r)
         IN  IF b.failed
             THEN Done(b.log, b.res, Result(500, "Failed to start instance"))
             ELSE Done(b.log, b.res, Result(200, "Instance start initiated"))
    ELSE RebootThenStop(r, F, nOk)

\* handle_status_check_failure, from line 188 on
handle_status_check_failure(instance_details, r, F, nOk) ==
    IF instance_details.res.State = "running"
    THEN IF cfg.custom # "default"
         THEN apply_custom_healing_action(cfg.custom, r, F, nOk)
         ELSE RebootThenStop(r, F, nOk)
    ELSE IF instance_details.res.State = "stopped"
    THEN LET b == Block(<<St("start_instances", <<>>, ""),
                          Notify(<<"Started instance">>)>>, F, nOk, r)
         IN  IF b.failed
             THEN Done(b.log, b.res, Result(500, "Failed to start instance"))
             ELSE Done(b.log, b.res, Result(200, "Instance start initiated"))
    ELSE Done(NotifyEv(nOk, <<"no healing action taken">>), r,
              Result(200, "No healing action taken"))

\* TypeFixSteps without the wait for the stopped state.
TypeFixStepsNoWait(instance_details) ==
    IF instance_details.res.Type = cfg.itype THEN <<>>
    ELSE IF instance_details.res.State = "running"
    THEN <<St("stop_instances", <<>>,
              "Stopping instance to fix instance type drift"),
           St("modify_instance_type", cfg.itype, "Changed instance type"),
           St("start_instances", <<>>,
              "Started instance after fixing instance type")>>
    ELSE <<St("modify_instance_type", cfg.itype, "Changed instance type")>>
         \o (IF instance_details.res.State = "stopped"
             THEN <<St("start_instances", <<>>,
                       "Started instance after fixing instance type")>>
             ELSE <<>>)

\* The steps that fix instance type drift, lines 392-433.
TypeFixSteps(instance_details) ==
    IF instance_details.res.Type = cfg.itype THEN <<>>
    ELSE IF instance_details.res.State = "running"
    THEN <<St("stop_instances", <<>>,
              "Stopping instance to fix instance type drift"),
           St("wait_instance_stopped", <<>>, ""),
           St("modify_instance_type", cfg.itype, "Changed instance type"),
           St("start_instances", <<>>,
              "Started instance after fixing instance type")>>
    ELSE <<St("modify_instance_type", cfg.itype, "Changed instance type")>>
         \o (IF instance_details.res.State = "stopped"
             THEN <<St("start_instances", <<>>,
                       "Started instance after fixing instance type")>>
             ELSE <<>>)

\* The steps that fix security group drift, lines 435-449.
GroupFixSteps(instance_details) ==
    IF GroupsDrifted(instance_details)
    THEN <<St("modify_groups", Range(cfg.groups), "Restored security groups")>>
    ELSE <<>>

\* healing_actions of one try block: the notes of the calls that returned,
\* then the error message when a call raised.
BlockNotes(b, error_message) ==
    b.notes \o (IF b.failed THEN <<error_message>> ELSE <<>>)

\* heal_config_drift_ec2 sending the drift notification after the instance
\* type fix.
heal_config_drift_ec2_notify_late(instance_details, r, F, nOk) ==
    LET t == Block(TypeFixSteps(instance_details), F, nOk, r)
        g == Block(GroupFixSteps(instance_details), F, nOk, t.res)
        healing_actions ==
            BlockNotes(t, "Error fixing instance type drift")
            \o BlockNotes(g, "Error fixing security groups drift")
            \o (IF instance_details.res.Image # cfg.image
                THEN <<"AMI drift detected but not automatically fixed. Manual intervention required.">>
                ELSE <<>>)
    IN  Done(t.log
             \o NotifyEv(nOk, <<"Configuration drift detected">>
                              \o drift_details_ec2(instance_details))
             \o g.log
             \o NotifyEv(nOk, <<"Healing actions">> \o healing_actions),
             g.res,
             Result(200, "Healing actions applied for configuration drift"))

\* heal_config_drift_ec2 starting the instance again when the instance type
\* fix raised.
heal_config_drift_ec2_restart(instance_details, r, F, nOk) ==
    LET t0 == Block(TypeFixSteps(instance_details), F, nOk, r)
        u == Block(<<St("start_instances", <<>>, "")>>, {}, nOk, t0.res)
        t == IF t0.failed
             THEN [t0 EXCEPT !.log = @ \o u.log, !.res = u.res]
             ELSE t0
        g == Block(GroupFixSteps(instance_details), F, nOk, t.res)
        healing_actions ==
            BlockNotes(t, "Error fixing instance type drift")
            \o BlockNotes(g, "Error fixing security groups drift")
            \o (IF instance_details.res.Image # cfg.image
                THEN <<"AMI drift detected but not automatically fixed. Manual intervention required.">>
                ELSE <<>>)
    IN  Done(NotifyEv(nOk, <<"Configuration drift detected">>
                            \o drift_details_ec2(instance_details))
             \o t.log \o g.log
             \o NotifyEv(nOk, <<"Healing actions">> \o healing_actions),
             g.res,
             Result(200, "Healing actions applied for configuration drift"))

\* handle_config_drift of the compute function, from line 383 on
heal_config_drift_ec2(instance_details, r, F, nOk) ==
    LET t == Block(TypeFixSteps(instance_details), F, nOk, r)
        g == Block(GroupFixSteps(instance_details), F, nOk, t.res)
        healing_actions ==
            BlockNotes(t, "Error fixing instance type drift")
            \o BlockNotes(g, "Error fixing security groups drift")
            \o (IF instance_details.res.Image # cfg.image
                THEN <<"AMI drift detected but not automatically fixed. Manual intervention required.">>
                ELSE <<>>)
    IN  Done(NotifyEv(nOk, <<"Configuration drift detected">>
                            \o drift_details_ec2(instance_details))
             \o t.log \o g.log
             \o NotifyEv(nOk, <<"Healing actions">> \o healing_actions),
             g.res,
             Result(200, "Healing actions applied for configuration drift"))

(***************************************************************************)
(* The database function: the handlers after increment_healing_attempts.   *)
(***************************************************************************)
\* sub in s
contains(s, sub) ==
    \E i \in 1..(Len(s) - Len(sub) + 1) : SubSeq(s, i, i + Len(sub) - 1) = sub

\* The branch handle_performance_issue takes for an alarm name, lines
\* 188-202: the first substring the lower-cased name holds.
NameCategory(alarm_name) ==
    IF contains(lower(alarm_name), KwCpu) THEN "cpu"
    ELSE IF contains(lower(alarm_name), KwStorage) THEN "storage"
    ELSE IF contains(lower(alarm_name), KwConnections) THEN "connections"
    ELSE IF contains(lower(alarm_name), KwMemory) THEN "memory"
    ELSE IF contains(lower(alarm_name), KwReplicaLag) THEN "replica-lag"
    ELSE IF contains(lower(alarm_name), KwIo) THEN "io"
    ELSE "unknown"

\* NameCategory of every alarm name of the model, computed once.
CategoryOf == [n \in AlarmNames |-> NameCategory(n)]

\* `if alarm_name:` is false for a missing and for an empty name.
AlarmCategory(event) ==
    IF ~event.hasAlarmName \/ Len(event.alarmName) = 0 THEN "absent"
    ELSE CategoryOf[event.alarmName]

\* is_instance_class_larger of every pair of classes of the model, computed
\* once.
ClassLarger ==
    [pair \in DatabaseClasses \X DatabaseClasses |->
        is_instance_class_larger(pair[1], pair[2])]

\* RebootDb without the except clause: the exception of the reboot call
\* leaves the handler, which returns nothing.
RebootDbUncaught(r, F, nOk, message, okBody, failBody) ==
    LET b == Block(<<St("reboot_db_instance", <<>>, ""), Notify(<<message>>)>>,
                   F, nOk, r)
    IN  IF b.failed THEN Done(b.log, b.res, NoResult)
        ELSE Done(b.log, b.res, Result(200, okBody))

\* The reboot every handler ends with, under its own messages.
RebootDb(r, F, nOk, message, okBody, failBody) ==
    LET b == Block(<<St("reboot_db_instance", <<>>, ""), Notify(<<message>>)>>,
                   F, nOk, r)
    IN  IF b.failed THEN Done(b.log, b.res, Result(500, failBody))
        ELSE Done(b.log, b.res, Result(200, okBody))

\* current_instance_class != ORIGINAL_INSTANCE_CLASS and
\* is_instance_class_larger(ORIGINAL_INSTANCE_CLASS, current_instance_class)
CanScaleUp(current_instance_class) ==
    /\ current_instance_class # cfg.itype
    /\ ClassLarger[<<cfg.itype, current_instance_class>>]

\* ScaleUpOrReboot rebooting after the resize whether or not it returned.
ScaleUpThenReboot(instance_details, r, F, nOk, why) ==
    LET b == Block(<<St("modify_db_instance_class", cfg.itype, ""),
                     Notify(<<"Scaling up DB instance", why>>)>>, F, nOk, r)
        c == RebootDb(IF CanScaleUp(instance_details.res.Type) THEN b.res ELSE r,
                      F, nOk, "Rebooted DB instance",
                      "DB instance reboot initiated", "Failed to heal DB instance")
    IN  IF CanScaleUp(instance_details.res.Type)
        THEN Done(b.log \o c.log, c.res, c.result)
        ELSE c

\* handle_cpu_issue, handle_memory_issue and handle_io_issue: the same code
\* under three messages.
ScaleUpOrReboot(instance_details, r, F, nOk, why) ==
    LET b == Block(<<St("modify_db_instance_class", cfg.itype, ""),
                     Notify(<<"Scaling up DB instance", why>>)>>, F, nOk, r)
        c == RebootDb(IF CanScaleUp(instance_details.res.Type) THEN b.res ELSE r,
                      F, nOk, "Rebooted DB instance",
                      "DB instance reboot initiated", "Failed to heal DB instance")
    IN  IF CanScaleUp(instance_details.res.Type)
        THEN IF ~b.failed
             THEN Done(b.log, b.res, Result(200, "DB instance scaling initiated"))
             ELSE Done(b.log \o c.log, c.res, c.result)
        ELSE c

\* NewStorage rounding up instead of truncating (math.ceil for int).
NewStorageCeil(current_allocated_storage) ==
    (current_allocated_storage * 12 + 9) \div 10

\* new_storage = int(current_allocated_storage * 1.2): the product is a
\* double; for every current value up to 200000 (beyond the largest
\* allocatable storage) its truncation equals the integer 12 * current
\* \div 10, which is what the model computes.
NewStorage(current_allocated_storage) ==
    (current_allocated_storage * 12) \div 10

\* StorageTarget growing by a fifth below the baseline too.
StorageTargetRelative(current_allocated_storage) ==
    IF current_allocated_storage <= cfg.storage
    THEN NewStorage(current_allocated_storage)
    ELSE 0

\* The storage the handler asks for, lines 298-334; 0 for no request.
StorageTarget(current_allocated_storage) ==
    IF current_allocated_storage < cfg.storage THEN cfg.storage
    ELSE IF current_allocated_storage = cfg.storage
    THEN NewStorage(current_allocated_storage)
    ELSE 0

handle_storage_issue(instance_details, r, F, nOk) ==
    LET current_allocated_storage == instance_details.res.Storage
        requested == current_allocated_storage <= cfg.storage
        b == Block(<<St("modify_db_instance_storage",
                        StorageTarget(current_allocated_storage), ""),
                     Notify(<<"Increasing storage for DB instance">>)>>,
                   F, nOk, r)
    IN  IF requested /\ ~b.failed
        THEN Done(b.log, b.res,
                  Result(200, "DB instance storage increase initiated"))
        ELSE Done((IF requested THEN b.log ELSE <<>>)
                  \o NotifyEv(nOk, <<"Unable to increase storage. Manual intervention required.">>),
                  r, Result(200, "Manual intervention required for storage issue"))

\* handle_performance_issue treating a connections alarm as a cpu alarm.
PerformanceIssueScalingConnections(instance_details, event, r, F, nOk) ==
    IF instance_details.res.State = "available"
    THEN CASE AlarmCategory(event) = "cpu" ->
                ScaleUpOrReboot(instance_details, r, F, nOk, "high CPU")
           [] AlarmCategory(event) = "storage" ->
                handle_storage_issue(instance_details, r, F, nOk)
           [] AlarmCategory(event) = "connections" ->
                ScaleUpOrReboot(instance_details, r, F, nOk,
                                "high connection count")
           [] AlarmCategory(event) = "memory" ->
                ScaleUpOrReboot(instance_details, r, F, nOk, "high memory usage")
           [] AlarmCategory(event) = "replica-lag" ->
                RebootDb(r, F, nOk, "Rebooted DB replica",
                         "DB replica reboot initiated",
                         "Failed to heal DB replica")
           [] AlarmCategory(event) = "io" ->
                ScaleUpOrReboot(instance_details, r, F, nOk,
                                "high I/O utilization")
           [] OTHER ->
                RebootDb(r, F, nOk, "Rebooted DB instance",
                         "DB instance reboot initiated",
                         "Failed to heal DB instance")
    ELSE Done(NotifyEv(nOk, <<"no healing action taken">>), r,
              Result(200, "No healing action taken"))

\* handle_performance_issue, from line 185 on
handle_performance_issue(instance_details, event, r, F, nOk) ==
    IF instance_details.res.State = "available"
    THEN CASE AlarmCategory(event) = "cpu" ->
                ScaleUpOrReboot(instance_details, r, F, nOk, "high CPU")
           [] AlarmCategory(event) = "storage" ->
                handle_storage_issue(instance_details, r, F, nOk)
           [] AlarmCategory(event) = "connections" ->
                RebootDb(r, F, nOk, "Rebooted DB instance",
                         "DB instance reboot initiated",
                         "Failed to heal DB instance")
           [] AlarmCategory(event) = "memory" ->
                ScaleUpOrReboot(instance_details, r, F, nOk, "high memory usage")
           [] AlarmCategory(event) = "replica-lag" ->
                RebootDb(r, F, nOk, "Rebooted DB replica",
                         "DB replica reboot initiated",
                         "Failed to heal DB replica")
           [] AlarmCategory(event) = "io" ->
                ScaleUpOrReboot(instance_details, r, F, nOk,
                                "high I/O utilization")
           [] OTHER ->
                RebootDb(r, F, nOk, "Rebooted DB instance",
                         "DB instance reboot initiated",
                         "Failed to heal DB instance")
    ELSE Done(NotifyEv(nOk, <<"no healing action taken">>), r,
              Result(200, "No healing action taken"))

\* The fix of instance class drift, lines 664-676.
ClassFixSteps(instance_details) ==
    IF instance_details.res.Type # cfg.itype
    THEN <<St("modify_db_instance_class", cfg.itype, "Changed instance class")>>
    ELSE <<>>

\* StorageFixSteps for any storage drift, above the baseline too.
StorageFixStepsAnyDrift(instance_details) ==
    IF instance_details.res.Storage # cfg.storage
    THEN <<St("modify_db_instance_storage", cfg.storage,
              "Changed allocated storage")>>
    ELSE <<>>

\* The fix of allocated storage drift, lines 678-690.
StorageFixSteps(instance_details) ==
    IF instance_details.res.Storage # cfg.storage
       /\ instance_details.res.Storage < cfg.storage
    THEN <<St("modify_db_instance_storage", cfg.storage,
              "Changed allocated storage")>>
    ELSE <<>>

\* heal_config_drift_rds leaving engine version drift out of the healing
\* actions.
heal_config_drift_rds_no_engine_note(instance_details, r, F, nOk) ==
    LET c == Block(ClassFixSteps(instance_details), F, nOk, r)
        s == Block(StorageFixSteps(instance_details), F, nOk, c.res)
        healing_actions ==
            BlockNotes(c, "Error fixing instance class drift")
            \o BlockNotes(s, "Error fixing allocated storage drift")
        drift_message == NotifyEv(nOk, <<"Configuration drift detected">>
                                       \o drift_details_rds(instance_details))
    IN  IF instance_details.res.State # "available"
        THEN Done(drift_message
                  \o NotifyEv(nOk, <<"cannot fix configuration drift">>),
                  r, Result(200, "Cannot fix configuration drift due to instance status"))
        ELSE Done(drift_message \o c.log \o s.log
                  \o NotifyEv(nOk, <<"Healing actions">> \o healing_actions),
                  s.res,
                  Result(200, "Healing actions applied for configuration drift"))

\* handle_config_drift of the database function, from line 646 on
heal_config_drift_rds(instance_details, r, F, nOk) ==
    LET c == Block(ClassFixSteps(instance_details), F, nOk, r)
        s == Block(StorageFixSteps(instance_details), F, nOk, c.res)
        healing_actions ==
            BlockNotes(c, "Error fixing instance class drift")
            \o BlockNotes(s, "Error fixing allocated storage drift")
            \o (IF instance_details.res.Image # cfg.image
                THEN <<"Engine version drift detected but not automatically fixed. Manual intervention required.">>
                ELSE <<>>)
        drift_message == NotifyEv(nOk, <<"Configuration drift detected">>
                                       \o drift_details_rds(instance_details))
    IN  IF instance_details.res.State # "available"
        THEN Done(drift_message
                  \o NotifyEv(nOk, <<"cannot fix configuration drift">>),
                  r, Result(200, "Cannot fix configuration drift due to instance status"))
        ELSE Done(drift_message \o c.log \o s.log
                  \o NotifyEv(nOk, <<"Healing actions">> \o healing_actions),
                  s.res,
                  Result(200, "Healing actions applied for configuration drift"))

(***************************************************************************)
(* lambda_handler up to the call of increment_healing_attempts: event      *)
(* classification, budget check, transitional guard, drift detection and   *)
(* maintenance guard.  `next` is "increment" when the handler goes on to    *)
(* record an attempt and "done" when it has returned `result`.             *)
(***************************************************************************)
Checked(attempts, log, result, next) ==
    [attempts |-> attempts, log |-> log, result |-> result, next |-> next]

\* handle_config_drift up to its increment_healing_attempts: the compute
\* function (lines 323-381) looks at the maintenance tag, the database
\* function (lines 606-644) does not.
detect_config_drift(instance_details, attempts, log, nOk) ==
    IF drift_details(instance_details) = <<>>
    THEN Checked(attempts, log,
                 Result(200, "No configuration drift detected"), "done")
    ELSE IF cfg.kind = "compute" /\ in_maintenance(instance_details)
    THEN Checked(attempts,
                 log \o NotifyEv(nOk, <<"Configuration drift detected, but instance is in maintenance window. Skipping remediation.">>),
                 Result(200, "Drift remediation skipped due to maintenance window"),
                 "done")
    ELSE Checked(attempts, log, NoResult, "increment")

\* The dispatch on event_type, lines 76-85 / 68-79.
dispatch(event_type, instance_details, attempts, log, nOk) ==
    IF event_type \in {"status_check_failure", "performance_issue"}
    THEN Checked(attempts, log, NoResult, "increment")
    ELSE IF event_type = "config_drift"
    THEN detect_config_drift(instance_details, attempts, log, nOk)
    ELSE Checked(attempts, log, Result(400, "Unknown event type"), "done")

\* lambda_handler of the compute function, lines 54-87
lambda_handler_ec2(event_type, instance_details, nOk) ==
    LET healing_attempts == get_healing_attempts_ec2(instance_details)
    IN  IF BudgetExhausted(healing_attempts)
        THEN Checked(healing_attempts,
                     NotifyEv(nOk, <<"Maximum healing attempts reached">>),
                     Result(429, "Maximum healing attempts reached"), "done")
        ELSE IF IsTransitional(instance_details.res.State)
        THEN Checked(healing_attempts,
                     NotifyEv(nOk, <<"Healing deferred">>),
                     Result(202, "Healing deferred due to transitional state"),
                     "done")
        ELSE dispatch(event_type, instance_details, healing_attempts, <<>>, nOk)

\* lambda_handler of the database function, lines 57-84
lambda_handler_rds(event_type, instance_details, tag_list, readOk, nOk) ==
    LET healing_attempts == get_healing_attempts_rds(tag_list, readOk)
        read == <<Ev("list_tags_for_resource", readOk, <<>>)>>
    IN  IF BudgetExhausted(healing_attempts)
        THEN Checked(healing_attempts,
                     read \o NotifyEv(nOk, <<"Maximum healing attempts reached">>),
                     Result(429, "Maximum healing attempts reached"), "done")
        ELSE dispatch(event_type, instance_details, healing_attempts, read, nOk)

(***************************************************************************)
(* The invocations.                                                        *)
(***************************************************************************)
NoDetails ==
    [res |-> [State |-> "", Type |-> <<>>, Storage |-> 0, Groups |-> {},
              Image |-> ""],
     tags |-> NoTags]

\* The resource and its tags as an invocation found them when it began.
NoBefore == [res |-> NoDetails.res, tags |-> NoTags]

\* The summary of an invocation that was a scheduled drift check of a
\* resource without drift: whether it fetched the resource, whether it got
\* past the fetch, the budget check and the transitional guard, what it
\* returned, how many mutating calls it made and what it found when it
\* began.  NoPrev for any other invocation.
NoPrev ==
    [valid |-> FALSE, fetched |-> FALSE, passed |-> FALSE, result |-> NoResult,
     mutating |-> 0, before |-> NoBefore]

\* log is the trace of the invocation after the fetch: its control-plane
\* calls, sleeps and calls of send_notification, in order.
IdleRun ==
    [pc |-> "idle", event |-> NoEvent, event_type |-> "", details |-> NoDetails,
     fetched |-> FALSE, attempts |-> 0, log |-> <<>>, result |-> NoResult,
     clean |-> FALSE, before |-> NoBefore, pred |-> NoPrev]

\* sns_client.publish succeeds: the topic is configured and the service up.
SnsOk == cfg.sns = "ok"

InFlight(p) == run[p].pc # "idle"

\* The mutating control-plane calls of a log (made, whether or not they
\* succeeded).
Mutating(log) == {i \in 1..Len(log) : log[i].op \in MutatingOps}

\* What describe returns for the resource now.  The compute snapshot holds
\* the tags; the database one is read without them.
Snapshot ==
    [res |-> res, tags |-> IF cfg.kind = "compute" THEN tags ELSE NoTags]

\* The snapshot equals the baseline on every attribute the drift check of
\* its kind looks at (the bookkeeping of `clean`; not part of the code).
EqualsBaseline(instance_details) ==
    /\ instance_details.res.Type = cfg.itype
    /\ instance_details.res.Image = cfg.image
    /\ cfg.kind = "database" => instance_details.res.Storage = cfg.storage
    /\ (cfg.kind = "compute" /\ cfg.groups # <<"">>)
          => instance_details.res.Groups = {cfg.groups[i] : i \in 1..Len(cfg.groups)}

\* Whether the fetcher can hand back a snapshot, over every way the
\* describe calls of one invocation can go.
FetchOutcomes ==
    {get_instance_details_with_retry(responses).found :
        responses \in [1..RETRY_COUNT -> {"raise", "empty", "ok"}]}

\* Unavailable with a budget read and an attempt recorded before the return.
UnavailableCounted(nOk) ==
    [log |-> <<Ev("list_tags_for_resource", TRUE, <<>>),
               Ev("create_tags", TRUE, <<"1">>)>>
             \o NotifyEv(nOk, <<"Unable to retrieve details">>),
     result |-> Result(500, "Failed to retrieve instance details")]

\* `if not instance_details:` the fetcher returned nothing: one
\* notification and the 500 result, before anything else is looked at.
Unavailable(nOk) ==
    [log |-> NotifyEv(nOk, <<"Unable to retrieve details">>),
     result |-> Result(500, "Failed to retrieve instance details")]

\* lambda_handler from its first line to the point where it either returns
\* or is about to call increment_healing_attempts: classification, fetch,
\* budget check, guards and drift detection.
lambda_handler(event, found, readOk, nOk) ==
    LET event_type == IF cfg.kind = "compute"
                      THEN determine_event_type_ec2(event)
                      ELSE determine_event_type_rds(event)
        c == IF cfg.kind = "compute"
             THEN lambda_handler_ec2(event_type, Snapshot, nOk)
             ELSE lambda_handler_rds(event_type, Snapshot, tags, readOk, nOk)
        started == [IdleRun EXCEPT !.event = event, !.event_type = event_type,
                                   !.clean = EqualsBaseline(Snapshot),
                                   !.before = [res |-> res, tags |-> tags]]
    IN  IF ~found
        THEN [started EXCEPT
                !.pc = "done",
                !.log = Unavailable(nOk).log,
                !.result = Unavailable(nOk).result]
        ELSE [started EXCEPT
                !.pc = c.next, !.details = Snapshot, !.fetched = TRUE,
                !.attempts = c.attempts, !.log = c.log, !.result = c.result]

\* A trigger, one of `events`, starts lambda_handler in slot p.
InvokeWith(p, events) ==
    /\ run[p].pc = "idle"
    /\ p = "r2" => InFlight("r1")
    /\ \E event \in events, found \in FetchOutcomes,
          readOk \in BOOLEAN :
          /\ (cfg.kind = "compute" \/ ~found) => readOk
          /\ run' = [q \in Procs |->
                IF q = p
                THEN [lambda_handler(event, found, readOk, SnsOk) EXCEPT
                        !.pred = IF \E o \in Procs : InFlight(o)
                                 THEN NoPrev ELSE prev]
                ELSE [run[q] EXCEPT !.pred = NoPrev]]
    /\ prev' = NoPrev
    /\ UNCHANGED <<cfg, res, tags, probe>>

Invoke(p) == InvokeWith(p, Events(cfg.kind))

\* Increment recording the attempt a second time after the first write.
IncrementTwice(p) ==
    /\ run[p].pc = "increment"
    /\ \E writeOk \in BOOLEAN :
          LET written == IncrementTags(cfg.kind, run[p].attempts)
              op == IF cfg.kind = "compute" THEN "create_tags"
                    ELSE "add_tags_to_resource"
          IN  /\ tags' = IF writeOk THEN WriteTags(tags, written) ELSE tags
              /\ run' = [run EXCEPT ![p] =
                    [@ EXCEPT !.pc = "heal",
                              !.log = @ \o <<Ev(op, writeOk,
                                               written["HealingAttempts"]),
                                             Ev(op, writeOk,
                                               written["HealingAttempts"])>>]]
    /\ UNCHANGED <<cfg, res, prev, probe>>

\* increment_healing_attempts: the tag write, which may raise.
Increment(p) ==
    /\ run[p].pc = "increment"
    /\ \E writeOk \in BOOLEAN :
          LET written == IncrementTags(cfg.kind, run[p].attempts)
              op == IF cfg.kind = "compute" THEN "create_tags"
                    ELSE "add_tags_to_resource"
          IN  /\ tags' = IF writeOk THEN WriteTags(tags, written) ELSE tags
              /\ run' = [run EXCEPT ![p] =
                    [@ EXCEPT !.pc = "heal",
                              !.log = @ \o <<Ev(op, writeOk,
                                               written["HealingAttempts"])>>]]
    /\ UNCHANGED <<cfg, res, prev, probe>>

\* The control-plane calls the handlers of a kind and event type make.
HealOps(kind, event_type) ==
    IF kind = "compute"
    THEN IF event_type = "status_check_failure"
         THEN {"reboot_instances", "stop_instances", "wait_instance_stopped",
               "start_instances"}
         ELSE {"stop_instances", "wait_instance_stopped",
               "modify_instance_type", "start_instances", "modify_groups"}
    ELSE IF event_type = "performance_issue"
         THEN {"reboot_db_instance", "modify_db_instance_class",
               "modify_db_instance_storage"}
         ELSE {"modify_db_instance_class", "modify_db_instance_storage"}


\* Heal giving up when the tag write before it raised.
HealUnlessWriteFailed(p) ==
    /\ run[p].pc = "heal"
    /\ IF ~run[p].log[Len(run[p].log)].ok
       THEN /\ run' = [run EXCEPT ![p] =
                  [@ EXCEPT !.pc = "done",
                            !.result = Result(500, "Failed to record healing attempt")]]
            /\ res' = res
       ELSE \E F \in SUBSET HealOps(cfg.kind, run[p].event_type) :
               LET h == IF cfg.kind = "compute"
                        THEN IF run[p].event_type = "status_check_failure"
                             THEN handle_status_check_failure(run[p].details, res,
                                                              F, SnsOk)
                             ELSE heal_config_drift_ec2(run[p].details, res,
                                                        F, SnsOk)
                        ELSE IF run[p].event_type = "performance_issue"
                             THEN handle_performance_issue(run[p].details,
                                                           run[p].event, res,
                                                           F, SnsOk)
                             ELSE heal_config_drift_rds(run[p].details, res,
                                                        F, SnsOk)
               IN  /\ res' = h.res
                   /\ run' = [run EXCEPT ![p] =
                         [@ EXCEPT !.pc = "done", !.log = @ \o h.log,
                                   !.result = h.result]]
    /\ UNCHANGED <<cfg, tags, prev, probe>>

\* The handler after the tag write: the remediation and the value returned.
Heal(p) ==
    /\ run[p].pc = "heal"
    /\ \E F \in SUBSET HealOps(cfg.kind, run[p].event_type) :
          LET nOk == SnsOk
              h == IF cfg.kind = "compute"
                   THEN IF run[p].event_type = "status_check_failure"
                        THEN handle_status_check_failure(run[p].details, res,
                                                         F, nOk)
                        ELSE heal_config_drift_ec2(run[p].details, res, F, nOk)
                   ELSE IF run[p].event_type = "performance_issue"
                        THEN handle_performance_issue(run[p].details,
                                                      run[p].event, res, F, nOk)
                        ELSE heal_config_drift_rds(run[p].details, res, F, nOk)
          IN  /\ res' = h.res
              /\ run' = [run EXCEPT ![p] =
                    [@ EXCEPT !.pc = "done", !.log = @ \o h.log,
                              !.result = h.result]]
    /\ UNCHANGED <<cfg, tags, prev, probe>>

\* The invocation in slot p is a scheduled drift check of a resource that
\* had no drift when it began.
CleanScheduled(p) == run[p].event_type = "config_drift" /\ run[p].clean

\* The invocation in slot p fetched the resource, read a counter below the
\* budget and (compute) found no transitional state.
PassedGuards(p) ==
    /\ run[p].fetched
    /\ ~BudgetExhausted(run[p].attempts)
    /\ cfg.kind = "compute" => ~IsTransitional(run[p].details.res.State)

Quiet == \A p \in Procs : ~InFlight(p)

\* lambda_handler returns; the slot is free for the next trigger.
Return(p) ==
    /\ run[p].pc = "done"
    /\ prev' = IF CleanScheduled(p) /\ \A q \in Procs \ {p} : ~InFlight(q)
               THEN [valid |-> TRUE, fetched |-> run[p].fetched,
                     passed |-> PassedGuards(p), result |-> run[p].result,
                     mutating |-> Cardinality(Mutating(run[p].log)),
                     before |-> run[p].before]
               ELSE NoPrev
    /\ run' = [run EXCEPT ![p] = IdleRun]
    /\ UNCHANGED <<cfg, res, tags, probe>>

(***************************************************************************)
(* The environment: the operator and the control plane change the          *)
(* resource between invocations.                                           *)
(***************************************************************************)
\* The environment variables of a deployment (lines 19-26 / 24-30); sns
\* is "ok" when SNS_TOPIC_ARN is set and publish works, "down" when publish
\* raises.
ComputeConfig ==
    [kind |-> "compute", custom |-> "default", groups |-> <<"sg-1", "sg-2">>,
     itype |-> T3Large, storage |-> 0, image |-> "v1", sns |-> "ok"]

DatabaseConfig ==
    [kind |-> "database", custom |-> "default", groups |-> <<"">>,
     itype |-> DbM5Large, storage |-> 100, image |-> "v1", sns |-> "ok"]

DefaultConfig(kind) ==
    IF kind = "compute" THEN ComputeConfig ELSE DatabaseConfig

\* The resource as deployed: it equals the baseline and carries no tag.
Deployed(c) ==
    [State |-> IF c.kind = "compute" THEN "running" ELSE "available",
     Type |-> c.itype, Storage |-> c.storage,
     Groups |-> IF c.kind = "compute" THEN GroupsA ELSE {},
     Image |-> c.image]

\* The resources one edit away from r.
EditedResources(r) ==
    {[r EXCEPT !.State = s] :
        s \in IF cfg.kind = "compute" THEN ComputeStates ELSE DatabaseStates}
    \cup {[r EXCEPT !.Type = t] :
        t \in IF cfg.kind = "compute" THEN ComputeTypes ELSE DatabaseClasses}
    \cup {[r EXCEPT !.Image = i] : i \in {"v1", "v2"}}
    \cup (IF cfg.kind = "compute"
          THEN {[r EXCEPT !.Groups = g] : g \in {GroupsA, GroupsB}}
          ELSE {[r EXCEPT !.Storage = s] :
                    s \in {cfg.storage - 50, cfg.storage, cfg.storage + 50}})

\* The tag sets one edit away from t.
EditedTags(t) ==
    {("HealingAttempts" :> v) @@ t : v \in ManualAttempts}
    \cup {("MaintenanceWindow" :> v) @@ t : v \in MaintenanceValues}
    \cup {[k \in DOMAIN t \ {"HealingAttempts"} |-> t[k]]}

\* The deployments one edit away from c: the environment variables
\* CUSTOM_HEALING_ACTIONS and ORIGINAL_SECURITY_GROUPS of the compute
\* function.
EditedConfigs(c) ==
    {[c EXCEPT !.sns = n] : n \in {"ok", "down"}}
    \cup (IF c.kind = "compute"
          THEN {[c EXCEPT !.custom = a] :
                  a \in {"default", "stop_start", "restore_from_backup",
                         "reboot"}}
               \cup {[c EXCEPT !.groups = g] :
                        g \in {<<"">>, <<"sg-1", "sg-2">>}}
          ELSE {})

\* How many attributes differ from the resource as deployed.
Deviations(c, r, t) ==
    Cardinality({f \in {"State", "Type", "Storage", "Groups", "Image"} :
                    r[f] # Deployed(c)[f]})
    + Cardinality({f \in {"custom", "groups", "sns"} :
                    c[f] # DefaultConfig(c.kind)[f]})
    + Cardinality(DOMAIN t \cap {"HealingAttempts", "MaintenanceWindow"})

OperatorEdit ==
    /\ Quiet
    /\ \/ /\ res' \in EditedResources(res) \ {res}
          /\ UNCHANGED <<tags, cfg>>
       \/ /\ tags' \in EditedTags(tags) \ {tags}
          /\ UNCHANGED <<res, cfg>>
       \/ /\ cfg' \in EditedConfigs(cfg) \ {cfg}
          /\ UNCHANGED <<res, tags>>
    /\ Deviations(cfg', res', tags') <= MaxDeviations
    /\ prev' = NoPrev
    /\ UNCHANGED <<run, probe>>

\* A lifecycle transition the control plane was carrying out completes.
Settle ==
    /\ Quiet
    /\ res.State \in {"pending", "stopping", "modifying", "rebooting"}
    /\ res' = [res EXCEPT !.State =
                  CASE res.State = "pending" -> "running"
                    [] res.State = "stopping" -> "stopped"
                    [] OTHER -> "available"]
    /\ prev' = NoPrev
    /\ UNCHANGED <<cfg, tags, run, probe>>

(***************************************************************************)
(* The specification of the two functions.                                 *)
(***************************************************************************)

NoProbe == [class1 |-> <<>>, class2 |-> <<>>, larger |-> FALSE, done |-> FALSE]

Idle ==
    /\ tags = NoTags
    /\ run = [p \in Procs |-> IdleRun]
    /\ prev = NoPrev

Init ==
    /\ cfg \in {ComputeConfig, DatabaseConfig}
    /\ res = Deployed(cfg)
    /\ Idle
    /\ probe = NoProbe

\* One invocation at a time, and the operator in between.
Next ==
    \/ Invoke("r1")
    \/ Increment("r1")
    \/ Heal("r1")
    \/ Return("r1")
    \/ OperatorEdit
    \/ Settle

Spec == Init /\ [][Next]_vars

(***************************************************************************)
(* The storage alarm of the database function, over a range of baselines:  *)
(* the resource is deployed with its baseline storage and storage alarms   *)
(* fire.                                                                   *)
(***************************************************************************)
StorageAlarm == Event(TRUE, AlarmMarker, TRUE, AlarmStorage)

InitStorage ==
    /\ cfg \in {[DatabaseConfig EXCEPT !.storage = s] : s \in 1..MaxStorage}
    /\ res = Deployed(cfg)
    /\ Idle
    /\ probe = NoProbe

NextStorage ==
    \/ InvokeWith("r1", {StorageAlarm})
    \/ Increment("r1")
    \/ Heal("r1")
    \/ Return("r1")
    \/ Settle

SpecStorage == InitStorage /\ [][NextStorage]_vars

(***************************************************************************)
(* The instance-class comparator on its own: two classes are drawn and     *)
(* is_instance_class_larger is applied to them.                            *)
(***************************************************************************)
ProbeClasses ==
    {T3Micro, T3Large, M5Large, R5Large, X1Large,
     DbT3Micro, DbT3Large, DbM5Small, DbM5Large, DbM5Xlarge, DbR5Large,
     DbX1Large, DbR52xlarge, DbR54xlarge, DbR512xlarge, DbR5Metal}

InitCompare ==
    /\ cfg = DatabaseConfig
    /\ res = Deployed(cfg)
    /\ Idle
    /\ probe \in {[class1 |-> a, class2 |-> b, larger |-> FALSE, done |-> FALSE] :
                    a \in ProbeClasses, b \in ProbeClasses}

Compare ==
    /\ ~probe.done
    /\ probe' = [probe EXCEPT
                    !.larger = is_instance_class_larger(probe.class1, probe.class2),
                    !.done = TRUE]
    /\ UNCHANGED <<cfg, res, tags, run, prev>>

SpecCompare == InitCompare /\ [][Compare]_vars

(***************************************************************************)
(* Properties.  They are stated over the invocation in slot r1 and read    *)
(* its record when lambda_handler has returned (pc = "done"): the trigger, *)
(* the snapshot it fetched, the counter it read, the calls it made and the *)
(* value it returned.                                                      *)
(***************************************************************************)
Current == run["r1"]

Finished == Current.pc = "done"

\* The persisted counter: the HealingAttempts tag as a number, 0 when it is
\* absent or not a number.
StoredAttempts(t) ==
    IF HasTag(t, "HealingAttempts") /\ int(t["HealingAttempts"]).ok
    THEN int(t["HealingAttempts"]).val
    ELSE 0

\* The lifecycle and configuration calls of a log, in order.
Calls(log) == SelectSeq(log, LAMBDA e : e.op \in LifecycleOps)

\* The attempt-recording calls of a log.
TagWrites(log) == {i \in 1..Len(log) : log[i].op \in TagWriteOps}

Notifications(log) == {i \in 1..Len(log) : log[i].op = "notify"}

\* The invocation fetched the resource, read a counter below the budget
\* and, for compute, found a state that is not transitional.
PastGuards ==
    /\ Current.fetched
    /\ Current.attempts < MAX_HEALING_ATTEMPTS
    /\ cfg.kind = "compute" =>
          Current.details.res.State \notin {"pending", "stopping", "shutting-down"}

MaintenanceActive(t) ==
    /\ HasTag(t, "MaintenanceWindow")
    /\ lower(t["MaintenanceWindow"]) = active

NoDriftDetected == Result(200, "No configuration drift detected")
BudgetExhaustedResult == Result(429, "Maximum healing attempts reached")
DeferredTransitional == Result(202, "Healing deferred due to transitional state")
DeferredMaintenance ==
    Result(200, "Drift remediation skipped due to maintenance window")

\* C1: once the persisted HealingAttempts value is >= MaxAttempts, an
\* invocation that fetched the resource returns 429 and makes no mutating
\* call (no lifecycle or configuration call, no tag write), for both kinds,
\* every trigger and every failing call.  Stated on the step that starts
\* the invocation: it must end there, with 429 and nothing mutating.
C1_BudgetExhaustedAlways ==
    [][(/\ run["r1"].pc = "idle"
        /\ run'["r1"].pc # "idle"
        /\ run'["r1"].fetched
        /\ StoredAttempts(tags) >= MAX_HEALING_ATTEMPTS)
       => (/\ run'["r1"].pc = "done"
           /\ run'["r1"].result = BudgetExhaustedResult
           /\ Mutating(run'["r1"].log) = {})]_vars

\* A scheduled drift check has returned for a snapshot that equals the
\* baseline on every checked attribute.
ScheduledOnBaseline ==
    /\ Finished
    /\ Current.event_type = "config_drift"
    /\ Current.fetched
    /\ EqualsBaseline(Current.details)

\* C2 as stated: for every snapshot that equals the baseline on every
\* checked attribute, a scheduled drift check returns NoDriftDetected
\* without a tag write and without any other mutating call.
C2_NoDriftOnBaseline ==
    ScheduledOnBaseline =>
        /\ Current.result = NoDriftDetected
        /\ Mutating(Current.log) = {}

\* C2, amended: for every snapshot that equals the baseline on every
\* checked attribute, a scheduled drift check makes no mutating call and no
\* tag write; it returns NoDriftDetected, silently, when the counter it read
\* is below MaxAttempts and (compute) the state is not transitional, 429
\* when the counter read is at the budget, and 202 for a compute resource
\* in a transitional state.
C2_NoDriftOnBaselinePastGuards ==
    ScheduledOnBaseline =>
        /\ Mutating(Current.log) = {}
        /\ IF Current.attempts >= MAX_HEALING_ATTEMPTS
           THEN Current.result = BudgetExhaustedResult
           ELSE IF cfg.kind = "compute"
                   /\ Current.details.res.State
                        \in {"pending", "stopping", "shutting-down"}
           THEN Current.result = DeferredTransitional
           ELSE /\ Current.result = NoDriftDetected
                /\ Notifications(Current.log) = {}

\* C2's case happens: a scheduled check of a resource that carries tags
\* and equals its baseline returned NoDriftDetected.
C2_Witness ==
    /\ ScheduledOnBaseline
    /\ PastGuards
    /\ HasTag(tags, "HealingAttempts")
    /\ Current.result = NoDriftDetected

\* C3: for every resource kind, when a scheduled drift check that got past
\* the budget check and the transitional guard finds drift and the resource
\* carries an active maintenance tag, the invocation notifies, returns
\* Deferred-Maintenance, makes no mutating call and writes no tag.
C3_MaintenanceGuardEveryKind ==
    (/\ Finished
     /\ Current.event_type = "config_drift"
     /\ PastGuards
     /\ ~EqualsBaseline(Current.details)
     /\ MaintenanceActive(Current.before.tags))
    => (/\ Current.result = DeferredMaintenance
        /\ Notifications(Current.log) # {}
        /\ Mutating(Current.log) = {})

\* C4: the persisted HealingAttempts counter never decreases: every tag
\* write of an invocation stores a value >= the value stored at the moment
\* of the write.
C4_CounterNeverDecreases ==
    [][(/\ run["r1"].pc = "increment"
        /\ run'["r1"].pc = "heal"
        /\ tags' # tags)
       => StoredAttempts(tags') >= StoredAttempts(tags)]_vars

\* C5: an invocation makes at most one attempt-recording call, exactly one
\* when it makes a lifecycle or configuration call, and none when it ends
\* as budget-exhausted, deferred (transitional or maintenance), no-drift or
\* 'no healing action taken' for the wrong lifecycle state.
C5_AttemptRecordedOnlyOnAction ==
    Finished =>
        /\ Cardinality(TagWrites(Current.log)) <= 1
        /\ Len(Calls(Current.log)) > 0
              => Cardinality(TagWrites(Current.log)) = 1
        /\ Current.result \in {BudgetExhaustedResult, DeferredTransitional,
                               DeferredMaintenance, NoDriftDetected,
                               Result(200, "No healing action taken")}
              => TagWrites(Current.log) = {}

\* A cpu alarm has been handled for a running compute resource whose size
\* class (t3.micro) is strictly below the baseline's (t3.large).
CpuAlarmOnUndersized ==
    /\ Finished
    /\ cfg.kind = "compute"
    /\ Current.event = Event(TRUE, AlarmMarker, TRUE, AlarmCpu)
    /\ PastGuards
    /\ Current.details.res.State = "running"
    /\ Current.details.res.Type = T3Micro
    /\ cfg.itype = T3Large

StorageAlarmOnBaseline ==
    /\ Finished
    /\ cfg.kind = "database"
    /\ Current.event = StorageAlarm
    /\ PastGuards
    /\ Current.details.res.State = "available"
    /\ Current.details.res.Storage = cfg.storage

\* C7: for an available database whose allocated storage equals the
\* baseline, a storage alarm issues one storage resize, to exactly
\* floor(current * 1.2) = floor(6 * current / 5), for every current storage
\* of 1..MaxStorage.
C7_StorageHeadroom ==
    StorageAlarmOnBaseline =>
        LET calls == Calls(Current.log)
        IN  /\ Len(calls) = 1
            /\ calls[1].op = "modify_db_instance_storage"
            /\ calls[1].arg = (6 * Current.details.res.Storage) \div 5

\* C7's case happens where the truncation matters: 1.2 * 4 = 4.8, and the
\* resize that was issued and succeeded asked for 4.
C7_Witness ==
    /\ StorageAlarmOnBaseline
    /\ cfg.storage = 4
    /\ Calls(Current.log) = <<Ev("modify_db_instance_storage", TRUE, 4)>>

\* The chain of classes C8 names, in ascending order.
ClassChain == <<T3Micro, T3Large, M5Large, R5Large, X1Large>>

\* The comparator was applied to (larger, smaller) and to (smaller, larger).
ComparedDown(smaller, larger) ==
    probe.done /\ probe.class1 = larger /\ probe.class2 = smaller
ComparedUp(smaller, larger) ==
    probe.done /\ probe.class1 = smaller /\ probe.class2 = larger

\* C8: is_instance_class_larger orders t3.micro < t3.large < m5.large <
\* r5.large < x1.large and db.r5.2xlarge < db.r5.4xlarge: for each adjacent
\* pair a < b it is true of (b, a) and false of (a, b).
C8_ClassOrdering ==
    /\ \A i \in 1..(Len(ClassChain) - 1) :
          /\ ComparedDown(ClassChain[i], ClassChain[i + 1]) => probe.larger
          /\ ComparedUp(ClassChain[i], ClassChain[i + 1]) => ~probe.larger
    /\ ComparedDown(DbR52xlarge, DbR54xlarge) => probe.larger
    /\ ComparedUp(DbR52xlarge, DbR54xlarge) => ~probe.larger

\* The second of two scheduled drift checks in immediate succession, both
\* of a resource that equals its baseline and was fetched, has returned.
SecondOnBaseline ==
    /\ Finished
    /\ CleanScheduled("r1")
    /\ Current.fetched
    /\ Current.pred.valid
    /\ Current.pred.fetched

\* C9 as stated: two runs in immediate succession on a resource with no
\* drift and no alarm both return NoDriftDetected, neither makes a mutating
\* call, and the resource and its tags after the second equal those before
\* the first.
C9_Idempotent ==
    SecondOnBaseline =>
        /\ Current.pred.result = NoDriftDetected
        /\ Current.result = NoDriftDetected
        /\ Current.pred.mutating = 0
        /\ Mutating(Current.log) = {}
        /\ res = Current.pred.before.res
        /\ tags = Current.pred.before.tags

\* C9, amended: of two scheduled runs in immediate succession on a resource
\* with no drift, neither makes a mutating call, and the resource and its
\* tags after the second equal those before the first; each of the two
\* that read a counter below MaxAttempts and (compute) found a state that
\* is not transitional returns NoDriftDetected, and the other outcomes are
\* 429 and 202.
C9_IdempotentPastGuards ==
    SecondOnBaseline =>
        /\ Current.pred.mutating = 0
        /\ Mutating(Current.log) = {}
        /\ res = Current.pred.before.res
        /\ tags = Current.pred.before.tags
        /\ Current.pred.passed => Current.pred.result = NoDriftDetected
        /\ PastGuards => Current.result = NoDriftDetected
        /\ {Current.pred.result, Current.result}
              \subseteq {NoDriftDetected, BudgetExhaustedResult,
                         DeferredTransitional}

\* C9's case happens: two scheduled runs in immediate succession, both past
\* the guards, both NoDriftDetected.
C9_Witness ==
    /\ SecondOnBaseline
    /\ Current.pred.passed
    /\ PastGuards
    /\ Current.pred.result = NoDriftDetected
    /\ Current.result = NoDriftDetected

\* The compute function fetched a resource in a transitional state and
\* read a counter below the budget.
TransitionalFetched ==
    /\ InFlight("r1")
    /\ cfg.kind = "compute"
    /\ Current.fetched
    /\ Current.details.res.State \in {"pending", "stopping", "shutting-down"}
    /\ Current.attempts < MAX_HEALING_ATTEMPTS

\* C10: whenever the compute function fetches the state pending, stopping
\* or shutting-down and the budget is not exhausted, the invocation returns
\* Deferred-Transitional (202) for alarm and scheduled triggers alike, and
\* its only call is the deferral notification: no tag write, no lifecycle
\* or configuration call.
C10_TransitionalGuard ==
    TransitionalFetched =>
        /\ Finished
        /\ Current.result = DeferredTransitional
        /\ Len(Current.log) = 1
        /\ Current.log[1].op = "notify"
        /\ Current.log[1].arg = <<"Healing deferred">>

\* C10's case happens: an alarm for an instance that is shutting down was
\* deferred.
C10_Witness ==
    /\ TransitionalFetched
    /\ Current.event_type = "status_check_failure"
    /\ Current.details.res.State = "shutting-down"
    /\ Current.result = DeferredTransitional


\* C11: when a scheduled drift check finds drift on a database whose status
\* is anything other than available, the run makes no corrective call and
\* does not increment the HealingAttempts counter (no tag write).
C11_DatabaseDeferredNoIncrement ==
    (/\ Finished
     /\ cfg.kind = "database"
     /\ Current.event_type = "config_drift"
     /\ PastGuards
     /\ ~EqualsBaseline(Current.details)
     /\ Current.details.res.State # "available")
    => (/\ Len(Calls(Current.log)) = 0
        /\ TagWrites(Current.log) = {})


(***************************************************************************)
(* Overlapping invocations: two Lambda invocations for the one resource    *)
(* run at the same time, their steps interleaved.  Nothing serialises      *)
(* them: the handlers take no lock and the tag write is unconditional.     *)
(***************************************************************************)
\* The triggers of the overlapping invocations: the scheduled check and an
\* alarm that names no alarm.
OverlapEvents ==
    {Event(TRUE, "Scheduled Event", FALSE, <<>>),
     Event(TRUE, AlarmMarker, FALSE, <<>>)}

NextOverlap ==
    \/ InvokeWith("r1", OverlapEvents)
    \/ InvokeWith("r2", OverlapEvents)
    \/ Increment("r1")
    \/ Increment("r2")
    \/ Heal("r1")
    \/ Heal("r2")
    \/ Return("r1")
    \/ Return("r2")
    \/ Settle

SpecOverlap == Init /\ [][NextOverlap]_vars


\* The invocation in slot p has written the HealingAttempts tag.
Recorded(p) ==
    \E i \in 1..Len(run[p].log) :
        run[p].log[i].op \in TagWriteOps /\ run[p].log[i].ok

\* The invocation in slot p has made a lifecycle or configuration call
\* that succeeded.
Remediated(p) ==
    \E i \in 1..Len(run[p].log) :
        run[p].log[i].op \in LifecycleOps /\ run[p].log[i].ok

\* Two overlapping invocations read the same counter and both recorded an
\* attempt.
BothRecorded ==
    /\ run["r1"].fetched
    /\ run["r2"].fetched
    /\ run["r1"].attempts = run["r2"].attempts
    /\ Recorded("r1")
    /\ Recorded("r2")

\* C12: two overlapping runs that read the same HealingAttempts value both
\* pass the budget check, and when both have recorded their attempt the
\* stored counter has advanced by one, not by two (a lost update).
C12_LostUpdate ==
    BothRecorded =>
        /\ run["r1"].attempts < MAX_HEALING_ATTEMPTS
        /\ StoredAttempts(tags) = run["r1"].attempts + 1

\* C12's case happens: with one attempt left in the budget, two overlapping
\* runs both remediated, and the stored counter stands at MaxAttempts.
C12_Witness ==
    /\ BothRecorded
    /\ run["r1"].attempts = MAX_HEALING_ATTEMPTS - 1
    /\ Remediated("r1")
    /\ Remediated("r2")
    /\ run["r1"].pc = "done"
    /\ run["r2"].pc = "done"
    /\ StoredAttempts(tags) = MAX_HEALING_ATTEMPTS


\* C13: the budget cap is absorbing: when a run has observed HealingAttempts
\* >= MaxAttempts (it returned BudgetExhausted) and no operator edit
\* follows, the next run that fetches the resource also returns
\* BudgetExhausted and makes no mutating call.
C13_CapAbsorbing ==
    (/\ Finished
     /\ Current.fetched
     /\ Current.pred.valid
     /\ Current.pred.result = BudgetExhaustedResult)
    => (/\ Current.result = BudgetExhaustedResult
        /\ Mutating(Current.log) = {})


\* C14 as stated: under any combination of failing reads, writes, actions
\* and notifications every run returns an outcome of the closed set of the
\* specification, whose statuses are 200 (healed, no drift, deferred for
\* maintenance, manual intervention), 202 (deferred, transitional), 400
\* (unknown intent), 429 (budget exhausted) and 500 (action failed,
\* resource unavailable).
C14_ClosedOutcomeSet ==
    Finished =>
        /\ Current.result.statusCode \in {200, 202, 400, 429, 500}
        /\ Current.result.body # ""

\* C14, amended: under any combination of failing reads, writes, actions
\* and notifications every run that has started goes on to return (each
\* step it has not taken yet can be taken), and what it returns is a status
\* and a body with the status one of 200, 202, 400, 429, 500 and 501 (the
\* custom healing action that is not implemented).
C14_WellFormedOutcome ==
    /\ Finished =>
          /\ Current.result.statusCode \in {200, 202, 400, 429, 500, 501}
          /\ Current.result.body # ""
    /\ Current.pc = "increment" => ENABLED Increment("r1")
    /\ Current.pc = "heal" => ENABLED Heal("r1")
    /\ Current.pc = "done" => ENABLED Return("r1")

\* C14's case happens: the notifier is down, the tag write, the reboot and
\* the stop all failed, and the run returned 500.
C14_Witness ==
    /\ Finished
    /\ cfg.sns = "down"
    /\ \E i \in 1..Len(Current.log) :
          Current.log[i].op \in TagWriteOps /\ ~Current.log[i].ok
    /\ Len(Calls(Current.log)) = 2
    /\ \A i \in 1..2 : ~Calls(Current.log)[i].ok
    /\ Current.result.statusCode = 500


\* C15: every run that returns anything other than NoDriftDetected sends a
\* notification about its outcome, and a run that returns NoDriftDetected
\* sends none.  "Sends" is a call of send_notification, counted whether or
\* not the publish succeeds; the notifications of the steps on the way
\* (drift found, instance stopping) are allowed beside the one of the
\* outcome, so a run is in order when it notifies at least once.
C15_OutcomeNotified ==
    Finished =>
        IF Current.result = NoDriftDetected
        THEN Notifications(Current.log) = {}
        ELSE Notifications(Current.log) # {}


(***************************************************************************)
(* get_instance_details_with_retry, call by call.  probe holds the loop:   *)
(* what each describe call of this run will do, the value of `retries`,    *)
(* the calls and sleeps so far, and where the function stands ("call":     *)
(* at the head of the loop, "sleep": at time.sleep, "done": returned).     *)
(***************************************************************************)
Responses == [1..RETRY_COUNT -> {"raise", "empty", "ok"}]

\* SleepsAfter without the test: a sleep after every failed read.
SleepsAlways(retries, max_retries) == TRUE

\* if retries < max_retries: time.sleep(RETRY_DELAY), after retries += 1
SleepsAfter(retries, max_retries) == retries < max_retries

InitFetch ==
    /\ cfg \in {ComputeConfig, DatabaseConfig}
    /\ res = Deployed(cfg)
    /\ Idle
    /\ probe \in {[responses |-> rs, retries |-> 0, log |-> <<>>,
                   pc |-> "call", found |-> FALSE] : rs \in Responses}

\* One pass of the loop body: the describe call and what follows it.
Describe ==
    /\ probe.pc = "call"
    /\ probe.retries < RETRY_COUNT
    /\ LET response == probe.responses[probe.retries + 1]
       IN  probe' =
             IF response = "raise"
             THEN [probe EXCEPT
                     !.retries = @ + 1,
                     !.log = @ \o <<Ev("describe", FALSE, <<>>)>>,
                     !.pc = IF SleepsAfter(probe.retries + 1, RETRY_COUNT)
                            THEN "sleep"
                            ELSE IF probe.retries + 1 < RETRY_COUNT
                            THEN "call" ELSE "done"]
             ELSE [probe EXCEPT
                     !.log = @ \o <<Ev("describe", TRUE, <<>>)>>,
                     !.found = (response = "ok"),
                     !.pc = "done"]
    /\ UNCHANGED <<cfg, res, tags, run, prev>>

\* time.sleep(RETRY_DELAY)
Sleep ==
    /\ probe.pc = "sleep"
    /\ probe' = [probe EXCEPT
                    !.log = @ \o <<Ev("sleep", TRUE, <<RETRY_DELAY>>)>>,
                    !.pc = IF probe.retries < RETRY_COUNT THEN "call" ELSE "done"]
    /\ UNCHANGED <<cfg, res, tags, run, prev>>

NextFetch == Describe \/ Sleep

SpecFetch == InitFetch /\ [][NextFetch]_vars

\* The describe calls of a fetch log.
Reads(log) == {i \in 1..Len(log) : log[i].op = "describe"}

\* C16: the fetcher issues at most 3 read calls per run; the first read
\* that does not raise ends it, with no further read (its snapshot is what
\* is returned); it always terminates; and it sleeps the fixed delay only
\* between attempts, never after the last one.
C16_BoundedFetch ==
    /\ Cardinality(Reads(probe.log)) <= 3
    /\ Cardinality(Reads(probe.log)) = probe.retries
          + (IF probe.pc = "done" /\ probe.log[Len(probe.log)].ok THEN 1 ELSE 0)
    /\ \A i \in 1..Len(probe.log) :
          /\ (probe.log[i].op = "describe" /\ probe.log[i].ok)
                => i = Len(probe.log) /\ probe.pc = "done"
          /\ probe.log[i].op = "sleep"
                => /\ probe.log[i].arg = <<2>>
                   /\ i > 1 /\ probe.log[i - 1] = Ev("describe", FALSE, <<>>)
                   /\ (i < Len(probe.log) => probe.log[i + 1].op = "describe")
                   /\ (i = Len(probe.log) => probe.pc = "call")
    /\ probe.pc = "done" =>
          /\ probe.log[Len(probe.log)].op = "describe"
          /\ probe.found =
                (probe.responses[Cardinality(Reads(probe.log))] = "ok")
          /\ [found |-> probe.found, log |-> probe.log]
                = get_instance_details_with_retry(probe.responses)
    /\ probe.pc # "done" => ENABLED NextFetch

\* C16's case happens: two reads raised, each followed by a sleep, the
\* third returned the instance and the fetcher returned it.
C16_Witness ==
    /\ probe.pc = "done"
    /\ probe.found
    /\ Len(probe.log) = 5
    /\ probe.log[5] = Ev("describe", TRUE, <<>>)


\* C17: when the fetcher hands back nothing, the run ends with status 500
\* ("Failed to retrieve instance details") after exactly one notification:
\* the budget is not read, no tag is written, no remediation is attempted
\* and the resource and its tags are as they were at the trigger.
C17_ResourceUnavailable ==
    (Finished /\ ~Current.fetched)
        => /\ Current.result = Result(500, "Failed to retrieve instance details")
           /\ Len(Current.log) = 1
           /\ Current.log[1].op = "notify"
           /\ Mutating(Current.log) = {}
           /\ res = Current.before.res
           /\ tags = Current.before.tags

\* C17's case happens: a run that could not fetch the resource has ended,
\* on a resource whose stored counter is already at the budget.
C17_Witness ==
    /\ Finished
    /\ ~Current.fetched
    /\ Current.log = NotifyEv(TRUE, <<"Unable to retrieve details">>)
    /\ StoredAttempts(tags) >= MAX_HEALING_ATTEMPTS


\* A status-check alarm on a compute resource got past the guards.
ComputeAlarm ==
    /\ Finished
    /\ cfg.kind = "compute"
    /\ Current.event_type = "status_check_failure"
    /\ PastGuards

\* The lifecycle and configuration calls of the current run, by name and
\* by whether they returned.
CallNames == [i \in 1..Len(Calls(Current.log)) |-> Calls(Current.log)[i].op]
CallsOk == [i \in 1..Len(Calls(Current.log)) |-> Calls(Current.log)[i].ok]

\* The same with the waits for the stopped state.
Steps ==
    SelectSeq(Current.log,
              LAMBDA e : e.op \in LifecycleOps \cup {"wait_instance_stopped"})

\* The calls of `steps` are those of `order`, one after the other, each
\* after the one before it returned, up to the end or to the first call
\* that raised.
Follows(steps, order) ==
    /\ Len(steps) \in 1..Len(order)
    /\ \A i \in 1..Len(steps) :
          /\ steps[i].op = order[i]
          /\ i < Len(steps) => steps[i].ok
    /\ Len(steps) < Len(order) => ~steps[Len(steps)].ok

StepsFollow(order) == Follows(Steps, order)

\* Reboot first, stop only after the reboot raised, never a start.
RebootBeforeStop ==
    \/ /\ CallNames = <<"reboot_instances">>
       /\ CallsOk[1]
    \/ /\ CallNames = <<"reboot_instances", "stop_instances">>
       /\ ~CallsOk[1]

OnlyStart == CallNames = <<"start_instances">>

ComputeTypeDrift ==
    /\ Finished
    /\ cfg.kind = "compute"
    /\ Current.event_type = "config_drift"
    /\ PastGuards
    /\ ~MaintenanceActive(Current.details.tags)
    /\ Current.details.res.Type # cfg.itype

\* The calls of the run that belong to the instance type fix.
TypeSteps == SelectSeq(Steps, LAMBDA e : e.op # "modify_groups")

\* C19: on the compute drift path, for a running resource whose size class
\* drifted, the run calls stop, waits for the stopped state, resizes to the
\* baseline size class and starts, strictly in that order: the resize is
\* never called before the stop has completed, and a call that raises ends
\* the sequence.
C19_StopResizeStart ==
    (ComputeTypeDrift /\ Current.details.res.State = "running")
        => /\ Follows(TypeSteps, <<"stop_instances", "wait_instance_stopped",
                                   "modify_instance_type", "start_instances">>)
           /\ \A i \in 1..Len(TypeSteps) :
                 TypeSteps[i].op = "modify_instance_type"
                    => /\ TypeSteps[i].arg = cfg.itype
                       /\ i > 2
                       /\ TypeSteps[i - 1] = Ev("wait_instance_stopped", TRUE, <<>>)
                       /\ TypeSteps[i - 2] = Ev("stop_instances", TRUE, <<>>)

\* C19's case happens: the four calls returned and the instance has the
\* baseline size class again.
C19_Witness ==
    /\ ComputeTypeDrift
    /\ Current.details.res.State = "running"
    /\ Len(TypeSteps) = 4
    /\ TypeSteps[4] = Ev("start_instances", TRUE, <<>>)
    /\ res.Type = cfg.itype


\* C20: on the compute drift path, a resource that was stopped when the run
\* fetched it and whose size class drifted is resized to the baseline size
\* class and is not started: a drift run never issues a start for a
\* resource that was stopped when the run fetched it.
C20_StoppedStaysStopped ==
    (/\ Finished
     /\ cfg.kind = "compute"
     /\ Current.event_type = "config_drift"
     /\ Current.fetched
     /\ Current.details.res.State = "stopped")
        => /\ \A i \in 1..Len(Current.log) :
                 Current.log[i].op # "start_instances"
           /\ ComputeTypeDrift =>
                 /\ Len(TypeSteps) = 1
                 /\ TypeSteps[1].op = "modify_instance_type"
                 /\ TypeSteps[1].arg = cfg.itype


\* A scheduled drift check got past the guards.
DriftRun ==
    /\ Finished
    /\ Current.event_type = "config_drift"
    /\ PastGuards

\* The healing actions the run reported: the lines of its last notification.
ActionSummary ==
    IF Current.log # <<>> /\ Current.log[Len(Current.log)].op = "notify"
       /\ Current.log[Len(Current.log)].arg # <<>>
       /\ Current.log[Len(Current.log)].arg[1] = "Healing actions"
    THEN {Current.log[Len(Current.log)].arg[i] :
             i \in 2..Len(Current.log[Len(Current.log)].arg)}
    ELSE {}

ErrorNotes ==
    {"Error fixing instance type drift", "Error fixing security groups drift",
     "Error fixing instance class drift", "Error fixing allocated storage drift"}

\* C21: in the drift path, when a remediation step fails the failure is
\* recorded in the action log and no later step of that run's plan is
\* attempted: a step that raised is the last step of the run.
C21_HaltOnFailure ==
    DriftRun =>
        \A i \in 1..Len(Steps) :
            ~Steps[i].ok => /\ i = Len(Steps)
                            /\ ActionSummary \cap ErrorNotes # {}


\* The outcomes with status 200 that report no remediation.
UnhealedBodies ==
    {"No configuration drift detected",
     "Drift remediation skipped due to maintenance window",
     "Cannot fix configuration drift due to instance status",
     "Manual intervention required for storage issue",
     "No healing action taken"}

\* The run returned a success outcome for a remediation.
Healed ==
    /\ Current.result.statusCode = 200
    /\ Current.result.body \notin UnhealedBodies

\* The run returned a failed-action outcome.
ActionFailed == Current.fetched /\ Current.result.statusCode = 500

\* A remediation step of the run raised and no later step of it returned.
FailedForGood ==
    \E i \in 1..Len(Steps) :
        /\ ~Steps[i].ok
        /\ \A j \in (i + 1)..Len(Steps) : ~Steps[j].ok

\* C22: a run returns the Healed outcome only if every remediation step it
\* attempted succeeded, and whenever a remediation step errored and no
\* fallback step succeeded the outcome is ActionFailed, on the alarm path
\* and on the drift path.
C22_FailureIsActionFailed ==
    (Finished /\ PastGuards) =>
        /\ Healed => ~FailedForGood
        /\ FailedForGood => ActionFailed


\* An alarm on a database whose status is available got past the guards.
DatabaseAlarm ==
    /\ Finished
    /\ cfg.kind = "database"
    /\ Current.event_type = "performance_issue"
    /\ PastGuards
    /\ Current.details.res.State = "available"

\* The class the run fetched is smaller than the baseline class under
\* is_instance_class_larger.
SmallerThanBaseline ==
    ClassLarger[<<cfg.itype, Current.details.res.Type>>]

\* C23: on the database alarm path with status available and category cpu,
\* memory or io, a current class smaller than the baseline under the
\* comparator makes the run call resize-to-baseline and, only if that call
\* fails, reboot; a class that is not smaller makes it call reboot only.
\* At most one of the two calls succeeds per run.
C23_ScaleUpOrReboot ==
    (DatabaseAlarm /\ AlarmCategory(Current.event) \in {"cpu", "memory", "io"})
        => /\ IF SmallerThanBaseline
              THEN /\ Len(Steps) \in {1, 2}
                   /\ Steps[1].op = "modify_db_instance_class"
                   /\ Steps[1].arg = cfg.itype
                   /\ Steps[1].ok => Len(Steps) = 1
                   /\ ~Steps[1].ok => /\ Len(Steps) = 2
                                      /\ Steps[2].op = "reboot_db_instance"
              ELSE /\ Len(Steps) = 1
                   /\ Steps[1].op = "reboot_db_instance"
           /\ Cardinality({i \in 1..Len(Steps) : Steps[i].ok}) <= 1

\* C23's case happens: a memory alarm on an undersized database, the resize
\* raised and the reboot that followed returned.
C23_Witness ==
    /\ DatabaseAlarm
    /\ AlarmCategory(Current.event) = "memory"
    /\ SmallerThanBaseline
    /\ Len(Steps) = 2
    /\ ~Steps[1].ok
    /\ Steps[2] = Ev("reboot_db_instance", TRUE, <<>>)


\* A storage alarm on an available database got past the guards.
StorageAlarmRun == DatabaseAlarm /\ AlarmCategory(Current.event) = "storage"

ManualInterventionRequired ==
    Result(200, "Manual intervention required for storage issue")

\* C24: on the database alarm path with category storage, allocated storage
\* below the baseline makes the run resize storage to the baseline value;
\* allocated storage above the baseline makes it issue no control-plane
\* action and return the manual-intervention-required outcome.
C24_StorageAlarm ==
    StorageAlarmRun =>
        /\ Current.details.res.Storage < cfg.storage
              => /\ Len(Steps) = 1
                 /\ Steps[1].op = "modify_db_instance_storage"
                 /\ Steps[1].arg = cfg.storage
                 /\ Steps[1].ok => res.Storage = cfg.storage
        /\ Current.details.res.Storage > cfg.storage
              => /\ Steps = <<>>
                 /\ res = Current.before.res
                 /\ Current.result = ManualInterventionRequired

\* C24's case happens: the storage was below the baseline and the run has
\* brought it back to the baseline.
C24_Witness ==
    /\ StorageAlarmRun
    /\ Current.details.res.Storage < cfg.storage
    /\ Steps = <<Ev("modify_db_instance_storage", TRUE, cfg.storage)>>
    /\ res.Storage = cfg.storage


\* C25: on the database alarm path with status available, for category
\* connections, replica-lag or unknown and for an absent alarm name, the
\* only remediation action the run calls is reboot, whatever the
\* resource's configuration is relative to the baseline.
C25_RebootOnly ==
    (/\ DatabaseAlarm
     /\ AlarmCategory(Current.event)
           \in {"connections", "replica-lag", "unknown", "absent"})
        => /\ Len(Steps) = 1
           /\ Steps[1].op = "reboot_db_instance"
           /\ res.Type = Current.before.res.Type
           /\ res.Storage = Current.before.res.Storage

\* C25's case happens: a connections alarm on a database whose class is
\* below the baseline and whose storage is off it was answered by a reboot.
C25_Witness ==
    /\ DatabaseAlarm
    /\ AlarmCategory(Current.event) = "connections"
    /\ SmallerThanBaseline
    /\ Current.details.res.Storage # cfg.storage
    /\ Steps = <<Ev("reboot_db_instance", TRUE, <<>>)>>


NoActionTaken == Result(200, "No healing action taken")

\* An alarm run fetched the resource with the budget not reached.
AlarmRun ==
    /\ Finished
    /\ Current.event_type \in {"status_check_failure", "performance_issue"}
    /\ Current.fetched
    /\ Current.attempts < MAX_HEALING_ATTEMPTS

\* The state the run fetched is not one the alarm path heals.
WrongState ==
    IF cfg.kind = "database"
    THEN Current.details.res.State # "available"
    ELSE Current.details.res.State \notin {"running", "stopped"}

\* C26 as stated: an alarm run on a database whose status is not available,
\* or on a compute resource that is neither running nor stopped, calls no
\* lifecycle or configuration operation and returns the 'no action taken'
\* outcome.
C26_WrongStateAsStated ==
    (AlarmRun /\ WrongState)
        => /\ Steps = <<>>
           /\ Current.result = NoActionTaken

\* C26, amended: such a run calls no lifecycle or configuration operation
\* and leaves the resource as it was; it returns the 'no action taken'
\* outcome unless the compute resource is in a transitional state (pending,
\* stopping, shutting-down), where the transitional guard has returned the
\* deferred outcome before the alarm handler is reached.
C26_WrongStateNoAction ==
    (AlarmRun /\ WrongState)
        => /\ Steps = <<>>
           /\ res = Current.before.res
           /\ Current.result =
                 IF cfg.kind = "compute"
                    /\ Current.details.res.State
                          \in {"pending", "stopping", "shutting-down"}
                 THEN DeferredTransitional
                 ELSE NoActionTaken

\* C26's case happens: an alarm on a terminated compute resource ended with
\* the 'no action taken' outcome.
C26_Witness ==
    /\ AlarmRun
    /\ cfg.kind = "compute"
    /\ Current.details.res.State = "terminated"
    /\ Current.result = NoActionTaken


\* The storage modifications the run issued.
StorageRequests ==
    SelectSeq(Current.log, LAMBDA e : e.op = "modify_db_instance_storage")

\* C27: storage is grow-only.  In every run, on the drift path and on the
\* storage-alarm path, a storage modification requests a value that is not
\* less than the allocated storage the run fetched, and drift with the
\* storage above the baseline triggers no storage modification.
C27_StorageGrowOnly ==
    (Finished /\ cfg.kind = "database" /\ Current.fetched)
        => /\ \A i \in 1..Len(StorageRequests) :
                 /\ StorageRequests[i].arg >= Current.details.res.Storage
                 /\ StorageRequests[i].arg >= Current.before.res.Storage
           /\ res.Storage >= Current.before.res.Storage
           /\ (Current.event_type = "config_drift"
               /\ Current.details.res.Storage > cfg.storage)
                 => StorageRequests = <<>>

\* C27's case happens: a drift run found the storage below the baseline and
\* has grown it to the baseline.
C27_Witness ==
    /\ DriftRun
    /\ cfg.kind = "database"
    /\ Current.details.res.Storage < cfg.storage
    /\ StorageRequests = <<Ev("modify_db_instance_storage", TRUE, cfg.storage)>>
    /\ res.Storage = cfg.storage


\* The drift check of the run found the image (AMI, engine version) off the
\* baseline.
ImageDrift == DriftRun /\ Current.details.res.Image # cfg.image

ManualNotes ==
    {"AMI drift detected but not automatically fixed. Manual intervention required.",
     "Engine version drift detected but not automatically fixed. Manual intervention required."}

\* The run went on to remediation: no active maintenance window on the
\* compute resource, status available on the database.
ReachedRemediation ==
    IF cfg.kind = "compute"
    THEN ~MaintenanceActive(Current.details.tags)
    ELSE Current.details.res.State = "available"

\* C28 as stated: image/engine-version drift is detection-only.  When it is
\* the only drift finding the run calls no lifecycle or configuration
\* operation, and in every drift run the finding is recorded in the action
\* summary as requiring manual intervention and never produces a
\* control-plane action.
C28_ImageDriftAsStated ==
    ImageDrift =>
        /\ Len(drift_details(Current.details)) = 1 => Steps = <<>>
        /\ res.Image = Current.before.res.Image
        /\ ActionSummary \cap ManualNotes # {}

\* C28, amended: the same, with the manual-intervention record limited to
\* the drift runs that reach remediation.  A run deferred by an active
\* maintenance window (compute) or by a status other than available
\* (database) makes no call and sends no action summary.
C28_ImageDriftDetectionOnly ==
    ImageDrift =>
        /\ Len(drift_details(Current.details)) = 1 => Steps = <<>>
        /\ res.Image = Current.before.res.Image
        /\ ReachedRemediation => ActionSummary \cap ManualNotes # {}
        /\ ~ReachedRemediation => /\ ActionSummary = {}
                                  /\ Steps = <<>>

\* C28's case happens: a database run whose only finding was the engine
\* version ended with the manual-intervention note and no call.
C28_Witness ==
    /\ ImageDrift
    /\ cfg.kind = "database"
    /\ ReachedRemediation
    /\ Len(drift_details(Current.details)) = 1
    /\ Steps = <<>>
    /\ ActionSummary \cap ManualNotes # {}


\* The drift findings the run reported: the lines of its drift notification.
Findings ==
    LET at == {i \in 1..Len(Current.log) :
                  /\ Current.log[i].op = "notify"
                  /\ Current.log[i].arg # <<>>
                  /\ Current.log[i].arg[1] = "Configuration drift detected"}
    IN  IF at = {} THEN <<>>
        ELSE LET i == CHOOSE i \in at : TRUE
             IN  SubSeq(Current.log[i].arg, 2, Len(Current.log[i].arg))

\* The place of a finding in the order size class, storage, network
\* groups, image/engine.
FindingRank(finding) ==
    CASE finding \in {"Instance type drift detected",
                      "Instance class drift detected"} -> 1
      [] finding = "Allocated storage drift detected" -> 2
      [] finding = "Security groups drift detected" -> 3
      [] finding \in {"AMI drift detected",
                      "Engine version drift detected"} -> 4
      [] OTHER -> 0

\* C29: the sequence of drift findings a run reports is always in the
\* fixed order size class, storage, network groups, image/engine last, for
\* both resource kinds and every combination of drifted attributes.
C29_FindingsOrder ==
    DriftRun =>
        \A i, j \in 1..Len(Findings) :
            i < j => FindingRank(Findings[i]) < FindingRank(Findings[j])


\* Where in the log the run sent its drift notification.
FindingsAt ==
    {i \in 1..Len(Current.log) :
        /\ Current.log[i].op = "notify"
        /\ Current.log[i].arg # <<>>
        /\ Current.log[i].arg[1] = "Configuration drift detected"}

\* Where in the log the run called a remediation operation.
RemediationAt ==
    {i \in 1..Len(Current.log) :
        Current.log[i].op \in LifecycleOps \cup {"wait_instance_stopped"}}

\* One notification lists every finding and comes before every remediation
\* operation of the run.
FindingsNotifiedFirst ==
    /\ Cardinality(FindingsAt) = 1
    /\ Findings = drift_details(Current.details)
    /\ \A i \in FindingsAt, k \in RemediationAt : i < k

\* The drift check of the run had at least one finding.
DriftFound == DriftRun /\ drift_details(Current.details) # <<>>

TagWriteAt == CHOOSE i \in TagWrites(Current.log) : TRUE

\* What the handler of the current run does after the tag write when the
\* calls of F raise: a function of the snapshot, the trigger and the
\* resource, in which the outcome of the tag write has no part.
Handled(F) ==
    IF cfg.kind = "compute"
    THEN IF Current.event_type = "status_check_failure"
         THEN handle_status_check_failure(Current.details, Current.before.res,
                                          F, SnsOk)
         ELSE heal_config_drift_ec2(Current.details, Current.before.res,
                                    F, SnsOk)
    ELSE IF Current.event_type = "performance_issue"
         THEN handle_performance_issue(Current.details, Current.event,
                                       Current.before.res, F, SnsOk)
         ELSE heal_config_drift_rds(Current.details, Current.before.res,
                                    F, SnsOk)

\* The run after its tag write is the handler under some set of raising
\* calls.
RestAsHandled ==
    \E F \in SUBSET HealOps(cfg.kind, Current.event_type) :
        /\ SubSeq(Current.log, TagWriteAt + 1, Len(Current.log)) = Handled(F).log
        /\ Current.result = Handled(F).result
        /\ res = Handled(F).res

\* C31: a failed attempt-recording tag write does not change the rest of
\* the run.  After the write, failed or not, the run issues the operations
\* and returns the outcome its handler gives for the snapshot it fetched,
\* and a failed write leaves the stored tags, the counter among them, as
\* they were.
C31_FailedWriteIsHarmless ==
    (Finished /\ TagWrites(Current.log) # {})
        => /\ RestAsHandled
           /\ ~Current.log[TagWriteAt].ok => tags = Current.before.tags

\* C31's case happens: the tag write raised, the run went on to reboot the
\* database and returned the success outcome, the counter still unset.
C31_Witness ==
    /\ Finished
    /\ TagWrites(Current.log) # {}
    /\ ~Current.log[TagWriteAt].ok
    /\ Steps = <<Ev("reboot_db_instance", TRUE, <<>>)>>
    /\ Current.result = Result(200, "DB instance reboot initiated")
    /\ StoredAttempts(tags) = 0


\* The run fetched a resource that a guard would defer: a lifecycle state
\* in transition (for the database, a status other than available) or an
\* active maintenance tag.
GuardWouldDefer ==
    \/ IF cfg.kind = "compute"
       THEN IsTransitional(Current.details.res.State)
       ELSE Current.details.res.State # "available"
    \/ MaintenanceActive(Current.before.tags)

\* C32: the budget check precedes every guard.  For a resource whose
\* HealingAttempts is at or above the budget and whose state is
\* transitional or which carries an active maintenance tag, the run returns
\* BudgetExhausted, not a deferred outcome, and no guard or drift
\* evaluation takes place: its one act is the budget notification.
C32_BudgetBeforeGuards ==
    (/\ Finished
     /\ Current.fetched
     /\ StoredAttempts(Current.before.tags) >= MAX_HEALING_ATTEMPTS
     /\ GuardWouldDefer)
        => /\ Current.result = BudgetExhaustedResult
           /\ Notifications(Current.log) # {}
           /\ TagWrites(Current.log) = {}
           /\ Steps = <<>>
           /\ Findings = <<>>


UnknownIntent == Result(400, "Unknown event type")

\* The payload has neither the alarm-state-change marker nor the shape of a
\* scheduled event.
Unrecognized(event) ==
    ~(event.hasDetailType
      /\ event.detailType \in {AlarmMarker, "Scheduled Event"})

\* C33: a trigger payload that carries the alarm-state-change marker is
\* classified as an alarm event, a scheduled payload as a drift check, and
\* a payload of any unrecognized shape makes the run return UnknownIntent
\* ('unknown event type') with no remediation attempted and no attempt
\* recorded.
C33_Classification ==
    InFlight("r1") =>
        /\ (Current.event.hasDetailType /\ Current.event.detailType = AlarmMarker)
              => Current.event_type \in {"status_check_failure",
                                         "performance_issue"}
        /\ (Current.event.hasDetailType
            /\ Current.event.detailType = "Scheduled Event")
              => Current.event_type = "config_drift"
        /\ (Unrecognized(Current.event) /\ Finished /\ PastGuards)
              => /\ Current.result = UnknownIntent
                 /\ Steps = <<>>
                 /\ TagWrites(Current.log) = {}


\* The tag read of the budget check of a database run raised.
TagReadFailed ==
    /\ Finished
    /\ cfg.kind = "database"
    /\ Current.fetched
    /\ Current.log # <<>>
    /\ Current.log[1] = Ev("list_tags_for_resource", FALSE, <<>>)

\* C34: in the database flow, when the tag read of the budget check fails
\* the attempt count is taken as 0: the run passes the budget check
\* whatever the stored HealingAttempts value is, and its attempt-recording
\* write stores the value 1.
C34_FailedReadCountsZero ==
    TagReadFailed =>
        /\ Current.attempts = 0
        /\ Current.result # BudgetExhaustedResult
        /\ \A i \in TagWrites(Current.log) :
              /\ Current.log[i].arg = str(1)
              /\ Current.log[i].ok => /\ tags["HealingAttempts"] = str(1)
                                      /\ StoredAttempts(tags) = 1

\* C34's case happens: the stored counter was at the budget, the read
\* raised, the run went on and its write has set the counter to 1.
C34_Witness ==
    /\ TagReadFailed
    /\ StoredAttempts(Current.before.tags) >= MAX_HEALING_ATTEMPTS
    /\ TagWrites(Current.log) # {}
    /\ StoredAttempts(tags) = 1


\* C35: every run performs at most one attempt-recording tag write; that
\* write stores exactly the counter value the same run read at its budget
\* check plus 1; and it happens before the first remediation operation of
\* the run is called.
C35_OneWriteBeforeRemediation ==
    InFlight("r1") =>
        /\ Cardinality(TagWrites(Current.log)) <= 1
        /\ \A i \in TagWrites(Current.log) :
              /\ Current.log[i].arg = str(Current.attempts + 1)
              /\ \A k \in RemediationAt : i < k
              /\ (Current.log[i].ok /\ Current.pc = "heal")
                    => StoredAttempts(tags) = Current.attempts + 1
        /\ RemediationAt # {} => TagWrites(Current.log) # {}

\* C35's case happens: the run read 2 at its budget check, wrote 3 and
\* then called remediation operations.
C35_Witness ==
    /\ Finished
    /\ Current.attempts = 2
    /\ TagWrites(Current.log) # {}
    /\ Current.log[TagWriteAt] \in
          {Ev(op, TRUE, str(3)) : op \in TagWriteOps}
    /\ Cardinality(RemediationAt) >= 2
    /\ StoredAttempts(tags) = 3


\* C36: in a compute drift run that fixes size-class drift, start is called
\* only after the resize call of that run succeeded.  If the stop succeeds
\* and the resize, or the wait for the stopped state, fails, the run issues
\* no start and leaves the previously running resource stopped.
C36_StartOnlyAfterResize ==
    ComputeTypeDrift =>
        /\ \A i \in 1..Len(TypeSteps) :
              TypeSteps[i].op = "start_instances"
                 => /\ i > 1
                    /\ TypeSteps[i - 1] = Ev("modify_instance_type", TRUE, cfg.itype)
        /\ (/\ Current.details.res.State = "running"
            /\ TypeSteps[1] = Ev("stop_instances", TRUE, <<>>)
            /\ \E i \in 2..Len(TypeSteps) :
                  /\ TypeSteps[i].op \in {"wait_instance_stopped",
                                          "modify_instance_type"}
                  /\ ~TypeSteps[i].ok)
              => /\ \A i \in 1..Len(TypeSteps) :
                       TypeSteps[i].op # "start_instances"
                 /\ res.State \in {"stopping", "stopped"}
                 /\ res.Type = Current.details.res.Type

\* C36's case happens: the stop and the wait returned, the resize raised,
\* and the instance that was running is stopped with its drifted type.
C36_Witness ==
    /\ ComputeTypeDrift
    /\ Current.details.res.State = "running"
    /\ Len(TypeSteps) = 3
    /\ TypeSteps[2] = Ev("wait_instance_stopped", TRUE, <<>>)
    /\ TypeSteps[3] = Ev("modify_instance_type", FALSE, cfg.itype)
    /\ res.State = "stopped"

====
